---------------------------- MODULE Spec2Model ----------------------------
(***************************************************************************)
(* Schedule resolution and realtime merge engine of TTCFareSite.           *)
(*                                                                         *)
(* The module holds five state machines over one set of variables:         *)
(*   SpecDL    the snapshot download manager (downloadWithResume,          *)
(*             ensureSqliteLocal) of lib/sqlite.js;                        *)
(*   SpecZip   the ensureZipLocal variants that cache the GTFS archive;    *)
(*   SpecSched the static schedule queries of both backends                *)
(*             (schedule-sqlite.js, gtfsZipSchedule.js, schedule.js);      *)
(*   SpecCal   the active-service computations over calendar_dates;        *)
(*   SpecTime  the conversion of a departure_time to a timestamp.          *)
(* Each specification drives its own variables and leaves the others at    *)
(* their initial value.                                                    *)
(***************************************************************************)
EXTENDS Integers, Sequences, FiniteSets, TLC

VARIABLES
  remote,     \* the remote snapshot: [size, ver]
  file,       \* bytes at sqlitePathFor(SQLITE_URL); <<>> = absent or empty
  fileAge,    \* Date.now() - mtimeMs of that file, in ms
  tmp,        \* bytes at `${filePath}.downloading`; <<>> = absent or empty
  pc,         \* position of the one caller: idle, probe, attempt, returned
  dl,         \* locals of the running call and its observations
  zip,        \* bytes at zipPathFor(GTFS_ZIP_URL)
  zipAge,     \* Date.now() - mtimeMs of the archive file, in ms
  zipTmp,     \* bytes at `${file}.downloading` of the archive
  zc,         \* the last ensureZipLocal call: implementation and observations
  stop_times,      \* the rows of stop_times.txt, in file order
  calendar_dates,  \* the rows of calendar_dates.txt, in file order
  hostOffset,      \* offset from UTC of the host process's zone, in seconds
  arg,             \* the arguments the callers pass: stopId, limit, routeRef
  sqliteReady,     \* lib/sqlite.js: isSqliteReady()
  LRU,             \* part_008: the result cache, entries [key, t, data]
  clock,           \* Date.now() in ms since the process started
  q,               \* the last schedule call and what it returned
  nCalls,          \* schedule calls made so far
  stops,           \* the rows of stops.txt / the stops table, in file order
  routeShort,      \* a route display name handed to a route filter
  feed,            \* the FeedMessage the trip-updates URL serves: its entities
  RT_CACHE,        \* part_006: the feed cache, entries [url, t, msg] in insertion order
  rt,              \* the last realtime call and what it returned
  env,             \* process.env: whether TTC_SQLITE_URL and TTC_GTFS_STATIC_URL are set
  zipHasDates,     \* whether the archive has a calendar_dates.txt entry
  LRU7,            \* part_007: its result cache, entries [key, t, data]
  net,             \* what the snapshot server does now: up, down, or serving a body that is no database
  prime,           \* the priming call: implementation, position, what its caller saw
  pg,              \* the external relational store: whether a pool is configured, and its stops table
  res,             \* the last stop-resolver call: function, implementation, arguments, result
  opens,           \* concurrent openTtcSqlite calls: each caller's position and handle, DB, counters
  req,             \* the last read request: path, implementation, the flag when it came, whether it called openTtcSqlite
  fetches,         \* fetchRT calls in flight, the newest successful start per URL, insertion order, the last return
  disk             \* concurrent ensureZipLocal calls: the paths, the files behind them, each call's position and descriptor

dlVars  == <<remote, file, fileAge, tmp, pc, dl>>
zipVars == <<zip, zipAge, zipTmp, zc>>
schedVars == <<stop_times, calendar_dates, hostOffset, arg, sqliteReady, LRU, clock,
               q, nCalls>>
extVars == <<stops, routeShort, feed, RT_CACHE, rt, env, zipHasDates, LRU7, net, prime, pg, res, opens, req, fetches, disk>>
vars    == <<dlVars, zipVars, schedVars, extVars>>

---------------------------------------------------------------------------
(* Bounds of the model *)

MaxRemoteSize == 9      \* remote snapshot sizes 1..MaxRemoteSize bytes
MaxAgeHours   == 25     \* file ages run from 0 to MaxAgeHours hours
ZipRemoteSize == 2      \* size of the remote archive in bytes
MaxTmpBytes   == 2      \* bytes a failed transfer may leave in the .downloading file
MaxRows       == 2      \* rows of stop_times.txt
MaxExceptions == 2      \* rows of calendar_dates.txt in SpecCal
MaxCalls      == 2      \* schedule calls in one behaviour of SpecSched
MaxClockTicks == 1      \* steps of 61 s the clock of SpecSched may take

HourMs == 60 * 60 * 1000

---------------------------------------------------------------------------
(* lib/sqlite.js: constants *)

TTL_SQLITE_MS == 24 * 60 * 60 * 1000
TTL_ZIP_MS    == 6 * 60 * 60 * 1000
ZIP_TTL_MS    == 24 * 60 * 60 * 1000
maxAttempts   == 8

NULL == 0                \* size || null: an unknown remote size
NoRange == -1            \* a request without a Range header

Min(a, b) == IF a < b THEN a ELSE b
Max(a, b) == IF a > b THEN a ELSE b

(* The body a server sends for the bytes of the snapshot from offset `from` *)
(* on: byte i of version v is <<v, i>>.                                     *)
RemoteBody(from) ==
  [i \in 1..(remote.size - from) |-> <<remote.ver, from + i>>]

(* The whole file of the version before the current one (remote.was is    *)
(* the size it had, 0 if there was none)                                   *)
PreviousBody == [i \in 1..remote.was |-> <<remote.ver - 1, i>>]

(* The first k bytes of a body.                                            *)
Prefix(s, k) == SubSeq(s, 1, k)

(* The ways a body arrives: whole, or only its first byte, or nothing of   *)
(* it, the stream then either ending normally or failing.                  *)
Deliveries(body) ==
  { [bytes |-> Prefix(body, k), cut |-> c] :
      k \in {0, 1, Len(body)} \cap (0..Len(body)), c \in BOOLEAN } \
  { [bytes |-> <<>>, cut |-> FALSE] }

IdleDl ==
  [op |-> "none", wrote |-> 0, attempt |-> 0, remoteSize |-> NULL,
   startN |-> 0, firstRange |-> NoRange, nReq |-> 0, nFail |-> 0,
   net |-> 0, callAge |-> 0, callSize |-> 0, ret |-> "none",
   got200 |-> FALSE, appended |-> FALSE, waits |-> <<>>, callWhole |-> FALSE]

IdleZc ==
  [impl |-> "none", callAge |-> 0, callSize |-> 0, net |-> 0,
   ret |-> "none"]

---------------------------------------------------------------------------
(* SpecDL: ensureSqliteLocal and downloadWithResume (lib/sqlite.js)        *)

(* The freshness test of every ensure*Local:                               *)
(*   st.size > 0 && (Date.now() - st.mtimeMs) < TTL                        *)
IsFresh(bytes, age, ttl) == Len(bytes) > 0 /\ age < ttl

(* if (!SQLITE_URL) throw ...: the URL constants are '' when the variable  *)
(* is not set.  urlNotChecked is an ensure*Local without that line.        *)
urlNotChecked(isSet) == FALSE
urlUnset(isSet) == ~isSet

(* ensureSqliteLocal up to its first await: the freshness check returns    *)
(* the path, otherwise the size probe is issued.                           *)
ensureSqliteLocal ==
  /\ pc = "idle"
  /\ LET d == [IdleDl EXCEPT !.op = "sqlite", !.callAge = fileAge,
                             !.callSize = Len(file),
                             !.callWhole = file # <<>> /\ file \in {RemoteBody(0),
                                                                   PreviousBody}]
     IN  IF urlUnset(env.SQLITE_URL)
           THEN pc' = "returned" /\ dl' = [d EXCEPT !.ret = "config"]
         ELSE IF IsFresh(file, fileAge, TTL_SQLITE_MS)
           THEN pc' = "returned" /\ dl' = [d EXCEPT !.ret = "ok"]
           ELSE pc' = "probe" /\ dl' = d
  /\ UNCHANGED <<remote, file, fileAge, tmp, zipVars, schedVars, extVars>>

(* downloadWithResume, lines 54-61: wrote is the size of the local file;   *)
(* a file that already has the remote size is kept.                        *)
downloadWithResumeStart(d, size) ==
  LET w == Len(file)
      e == [d EXCEPT !.remoteSize = size, !.wrote = w, !.startN = w]
  IN  IF size # NULL /\ w = size
        THEN [e EXCEPT !.ret = "ok"]
        ELSE [e EXCEPT !.attempt = 1]

(* httpHeadSize: a ranged probe whose Content-Range gives the total, else  *)
(* a HEAD whose Content-Length gives it, else null; the call of            *)
(* downloadWithResume follows without a suspension in between.             *)
httpHeadSize ==
  /\ pc = "probe"
  /\ \E out \in {"range", "head", "unknown", "throw"} :
       LET n == IF out = "range" THEN 1 ELSE IF out = "throw" THEN 1 ELSE 2
           size == IF out \in {"range", "head"} THEN remote.size ELSE NULL
           d == [dl EXCEPT !.net = @ + n]
       IN  IF out = "throw"
             THEN pc' = "returned" /\ dl' = [d EXCEPT !.ret = "err"]
             ELSE LET e == downloadWithResumeStart(d, size)
                  IN  /\ dl' = e
                      /\ pc' = IF e.ret = "ok" THEN "returned" ELSE "attempt"
  /\ UNCHANGED <<remote, file, fileAge, tmp, zipVars, schedVars, extVars>>

(* Line 100: backoff = Math.min(30_000 * attempt, 180_000), the wait after *)
(* a failed attempt.  dl.waits keeps the waits of the last failed attempts *)
(* in a row, at most three.                                                *)
backoffStepMs == 30000
backoffCapMs == 180000
backoff(attempt) == Min(backoffStepMs * attempt, backoffCapMs)
lastWaits(waits, w) ==
  LET ws == Append(waits, w)
  IN  IF Len(ws) > 3 THEN SubSeq(ws, Len(ws) - 2, Len(ws)) ELSE ws

(* The end of one iteration of the for loop that did not return: the next  *)
(* attempt, or 'exhausted retries' after maxAttempts.                      *)
NextAttempt(d) ==
  IF d.attempt >= maxAttempts
    THEN [d EXCEPT !.ret = "err"]
    ELSE [d EXCEPT !.attempt = @ + 1]

(* What a server may answer to the request of one attempt: status and the  *)
(* body it starts to send.  A request with Range: bytes=wrote- is answered *)
(* 206 with the bytes from wrote on, or, by a server that ignores Range,   *)
(* 200 with the whole file.                                                *)
Answers(w) ==
  IF w # 0
    THEN (IF w < remote.size
            THEN {[status |-> 206, body |-> RemoteBody(w)]} ELSE {})
         \cup {[status |-> 200, body |-> RemoteBody(0)]}
    ELSE {[status |-> 200, body |-> RemoteBody(0)]}

(* One iteration of the loop of downloadWithResume, lines 64-104, whose    *)
(* fetch fails or answers with a non-ok status: caught, backoff, retry.    *)
downloadAttemptFails ==
  /\ pc = "attempt"
  /\ LET d == [dl EXCEPT !.nReq = @ + 1, !.net = @ + 1, !.nFail = @ + 1,
                         !.waits = lastWaits(@, backoff(dl.attempt)),
                         !.firstRange =
                            IF dl.nReq = 0
                              THEN (IF dl.wrote # 0 THEN dl.wrote ELSE NoRange)
                              ELSE @]
         e == NextAttempt(d)
     IN  /\ dl' = e
         /\ pc' = IF e.ret = "err" THEN "returned" ELSE "attempt"
  /\ UNCHANGED <<remote, file, fileAge, tmp, zipVars, schedVars, extVars>>

(* One iteration whose fetch answers 200 or 206, lines 66-98.              *)
downloadAttempt ==
  /\ pc = "attempt"
  /\ \E a \in Answers(dl.wrote) : \E dv \in Deliveries(a.body) :
       LET restart == a.status = 200 /\ dl.wrote # 0
           \* lines 71-74: unlink the partial file and start over
           file1  == IF restart THEN <<>> ELSE file
           wrote1 == IF restart THEN 0 ELSE dl.wrote
           \* line 80: the temporary file is opened 'a' when wrote, else 'w'
           tmp1   == IF wrote1 # 0 THEN tmp \o dv.bytes ELSE dv.bytes
           d == [dl EXCEPT !.nReq = @ + 1, !.net = @ + 1,
                           !.wrote = wrote1,
                           !.got200 = @ \/ restart,
                           \* lines 82-85: the temporary file is appended to
                           \* the final file instead of renamed
                           !.appended = @ \/ (wrote1 # 0 /\ ~dv.cut),
                           !.waits = IF dv.cut THEN lastWaits(@, backoff(dl.attempt))
                                     ELSE <<>>,
                           !.firstRange =
                              IF dl.nReq = 0
                                THEN (IF dl.wrote # 0 THEN dl.wrote
                                                      ELSE NoRange)
                                ELSE @]
       IN  IF dv.cut
             THEN \* the pipeline rejects: caught at line 99
                  LET e == NextAttempt([d EXCEPT !.nFail = @ + 1])
                  IN  /\ Len(tmp1) <= MaxTmpBytes
                      /\ file' = file1
                      /\ fileAge' = IF restart THEN 0 ELSE fileAge
                      /\ tmp' = tmp1
                      /\ dl' = e
                      /\ pc' = IF e.ret = "err" THEN "returned" ELSE "attempt"
             ELSE \* lines 82-88: append the temporary file, or rename it
                  LET file2 == IF wrote1 # 0 THEN file1 \o tmp1 ELSE tmp1
                  IN  /\ file' = file2
                      /\ fileAge' = 0
                      /\ tmp' = <<>>
                      /\ IF d.remoteSize # NULL /\ Len(file2) < d.remoteSize
                           THEN \* lines 94-95: loop to fetch the rest
                                LET e == NextAttempt(
                                           [d EXCEPT !.wrote = Len(file2)])
                                IN  /\ dl' = e
                                    /\ pc' = IF e.ret = "err"
                                               THEN "returned" ELSE "attempt"
                           ELSE /\ dl' = [d EXCEPT !.ret = "ok"]
                                /\ pc' = "returned"
  /\ UNCHANGED <<remote, zipVars, schedVars, extVars>>

(* The caller takes the result (or the error); the next call may start.    *)
Return ==
  /\ pc = "returned"
  /\ pc' = "idle"
  /\ dl' = IdleDl
  /\ UNCHANGED <<remote, file, fileAge, tmp, zipVars, schedVars, extVars>>

(* An hour passes between calls.                                           *)
Tick ==
  /\ pc = "idle"
  /\ Len(file) > 0
  /\ fileAge < MaxAgeHours * HourMs
  /\ fileAge' = fileAge + HourMs
  /\ UNCHANGED <<remote, file, tmp, pc, dl, zipVars, schedVars, extVars>>


---------------------------------------------------------------------------
(* SpecZip: the ensureZipLocal variants                                    *)

(* The body of the remote archive.                                         *)
ZipBody == [i \in 1..ZipRemoteSize |-> <<"zip", i>>]

(* The five ensureZipLocal of the repository: the TTL each applies, and    *)
(* whether it streams into `${file}.downloading` and renames, or straight  *)
(* into the final path.                                                    *)
ZipImpls == {"part_002", "sqlite.js", "gtfsZipSchedule.js", "part_008",
             "part_007"}

ZipTtl(impl) ==
  CASE impl = "part_002"           -> TTL_ZIP_MS
    [] impl = "sqlite.js"          -> TTL_ZIP_MS
    [] impl = "gtfsZipSchedule.js" -> TTL_ZIP_MS
    [] impl = "part_008"           -> ZIP_TTL_MS
    [] impl = "part_007"           -> ZIP_TTL_MS

ZipViaTmp(impl) == impl \in {"sqlite.js", "part_008", "part_007"}

(* ensureZipLocal(impl): the freshness check, else one fetch whose body is *)
(* streamed to disk.                                                       *)
ensureZipLocal ==
  /\ zc.ret = "none"
  /\ \E impl \in ZipImpls :
       LET c == [IdleZc EXCEPT !.impl = impl, !.callAge = zipAge,
                               !.callSize = Len(zip)]
       IN  IF urlUnset(env.GTFS_URL)
             THEN /\ zc' = [c EXCEPT !.ret = "config"]
                  /\ UNCHANGED <<zip, zipAge, zipTmp>>
           ELSE IF IsFresh(zip, zipAge, ZipTtl(impl))
             THEN /\ zc' = [c EXCEPT !.ret = "ok"]
                  /\ UNCHANGED <<zip, zipAge, zipTmp>>
             ELSE \/ \* fetch rejects or !res.ok
                     /\ zc' = [c EXCEPT !.ret = "err", !.net = 1]
                     /\ UNCHANGED <<zip, zipAge, zipTmp>>
                  \/ \E dv \in Deliveries(ZipBody) \cup
                                  {[bytes |-> <<>>, cut |-> FALSE]} :
                       /\ zc' = [c EXCEPT !.net = 1,
                                   !.ret = IF dv.cut THEN "err" ELSE "ok"]
                       /\ IF ZipViaTmp(impl)
                            THEN IF dv.cut
                                   THEN /\ zipTmp' = dv.bytes
                                        /\ UNCHANGED <<zip, zipAge>>
                                   ELSE /\ zip' = dv.bytes   \* renameSync
                                        /\ zipAge' = 0
                                        /\ zipTmp' = <<>>
                            ELSE /\ zip' = dv.bytes   \* createWriteStream(file)
                                 /\ zipAge' = 0
                                 /\ UNCHANGED zipTmp
  /\ UNCHANGED <<dlVars, schedVars, extVars>>

ZipReturn ==
  /\ zc.ret # "none"
  /\ zc' = IdleZc
  /\ UNCHANGED <<zip, zipAge, zipTmp, dlVars, schedVars, extVars>>

ZipTick ==
  /\ zc.ret = "none"
  /\ Len(zip) > 0
  /\ zipAge < MaxAgeHours * HourMs
  /\ zipAge' = zipAge + HourMs
  /\ UNCHANGED <<zip, zipTmp, zc, dlVars, schedVars, extVars>>


---------------------------------------------------------------------------
(* Static schedule: time, calendar and the GTFS tables                     *)
(*                                                                         *)
(* A Date is an absolute instant, in seconds since 2024-01-05T00:00:00Z    *)
(* (a Friday).  A zone is its offset from UTC in seconds; the wall clock   *)
(* of instant x in a zone with offset off reads x + off.                   *)

DaySec == 24 * 3600
TorontoOffset == 0 - 5 * 3600           \* TZ = 'America/Toronto' in January
HostOffsets == {TorontoOffset, 0}       \* zone of the host process: Toronto or UTC
horizonMin == 6 * 60                    \* 360*60 seconds, horizonMin = 360
LRU_MAX == 80
LRU_TTL_MS == 60 * 1000
TickMs == LRU_TTL_MS + 1000             \* the wall clock advances in steps of 61 s
NoSec == -1                             \* hmsToSec / timeToSeconds returning null

(* Toronto wall-clock time h:m:s on day `day` (0 = Friday 2024-01-05)      *)
At(day, h, m, s) == day * DaySec + h * 3600 + m * 60 + s - TorontoOffset

(* Query instants: Friday 08:00:00, Friday 20:00:00 and Saturday 08:00:00  *)
(* Toronto time.                                                           *)
Nows == {At(0, 8, 0, 0), At(0, 20, 0, 0), At(1, 8, 0, 0)}

(* d.toLocaleString('en-CA', {timeZone: TZ}) read back by new Date(...) in *)
(* the host zone: the Date whose host wall clock shows Toronto's.          *)
toLocal(d) == d + TorontoOffset - hostOffset

(* Getters of a Date in the host zone *)
WallDay(d) == (d + hostOffset) \div DaySec
getDay(d) == (5 + WallDay(d)) % 7
DaySeconds(d) == (d + hostOffset) % DaySec   \* getHours()*3600 + getMinutes()*60 + getSeconds()
isoDate(d) == 20240105 + WallDay(d)          \* `${y}${mm}${dd}`

(* new Date(y, m, d): midnight of the Date's wall day, in the host zone    *)
localMidnight(d) == WallDay(d) * DaySec - hostOffset

(* Getters of a Date in UTC (part_007) *)
getUTCDay(d) == (5 + d \div DaySec) % 7
UTCDaySeconds(d) == d % DaySec
isoDateUTC(d) == 20240105 + d \div DaySec
utcMidnight(d) == (d \div DaySec) * DaySec

(* Date.prototype.toISOString: <<day, hours, minutes, seconds>> in UTC,    *)
(* and new Date(iso) reading it back.                                      *)
toISOString(x) == <<x \div DaySec, (x % DaySec) \div 3600, (x % 3600) \div 60, x % 60>>
DateParse(iso) == iso[1] * DaySec + iso[2] * 3600 + iso[3] * 60 + iso[4]

(* A departure_time is the sequence of its numeric fields: <<h, m, s>>,    *)
(* <<h, m>> when the seconds are left out, <<>> when it does not match.    *)
hmsToSec(t) ==
  IF Len(t) < 2 THEN NoSec
  ELSE t[1] * 3600 + t[2] * 60 + (IF Len(t) >= 3 THEN t[3] ELSE 0)
timeToSeconds(t) ==
  IF Len(t) < 2 THEN NoSec
  ELSE t[1] * 3600 + t[2] * 60 + (IF Len(t) >= 3 THEN t[3] ELSE 0)

secToIso(dayStart, sec) == toISOString(dayStart + sec)
secondsToWhenLocal(dayStartLocal, sec) == toISOString(dayStartLocal + sec)
secondsToWhen(tsSeconds, baseDate) == toISOString(utcMidnight(baseDate) + tsSeconds)

(* Strings that the code compares character by character are sequences of  *)
(* characters.                                                             *)
toLowerCase(s) == [i \in 1..Len(s) |-> IF s[i] = "A" THEN "a" ELSE s[i]]
startsWith(s, p) == Len(p) <= Len(s) /\ SubSeq(s, 1, Len(p)) = p
NoRef == <<>>                            \* routeRef = null
Range(s) == {s[i] : i \in 1..Len(s)}

(* The tables of the feed.  stop_times and calendar_dates are variables.   *)
StopsTxt ==
  << [stop_id |-> "S", location_type |-> 1, parent_station |-> ""],
     [stop_id |-> "A", location_type |-> 0, parent_station |-> "S"],
     [stop_id |-> "B", location_type |-> 0, parent_station |-> "S"] >>

routes ==
  << [route_id |-> "R1", route_short_name |-> <<"8", "3">>],
     [route_id |-> "R2", route_short_name |-> <<"8", "3", "A">>] >>

trips ==
  << [trip_id |-> "T1", service_id |-> "WK", route_id |-> "R1", trip_headsign |-> "East"],
     [trip_id |-> "T2", service_id |-> "SA", route_id |-> "R2", trip_headsign |-> "West"],
     [trip_id |-> "T3", service_id |-> "WK", route_id |-> "R2", trip_headsign |-> "West"],
     [trip_id |-> "T4", service_id |-> "WK", route_id |-> "R1", trip_headsign |-> "Night"] >>

calendar ==
  << [service_id |-> "WK", start_date |-> 20240101, end_date |-> 20241231,
      days |-> {1, 2, 3, 4, 5}],
     [service_id |-> "SA", start_date |-> 20240101, end_date |-> 20241231,
      days |-> {6}] >>

(* Rows that stop_times.txt may hold, in file order *)
StopTimeRows ==
  << [trip_id |-> "T1", stop_id |-> "A", departure_time |-> <<8, 0, 0>>],
     [trip_id |-> "T1", stop_id |-> "B", departure_time |-> <<8, 5, 0>>],
     [trip_id |-> "T2", stop_id |-> "A", departure_time |-> <<8, 10, 0>>],
     [trip_id |-> "T3", stop_id |-> "B", departure_time |-> <<14, 0, 0>>],
     [trip_id |-> "T3", stop_id |-> "A", departure_time |-> <<14, 0, 1>>],
     [trip_id |-> "T4", stop_id |-> "B", departure_time |-> <<25, 30, 0>>] >>

RECURSIVE Pick(_, _, _)
Pick(rows, keep, i) ==       \* the rows whose index is in keep, in file order
  IF i > Len(rows) THEN <<>>
  ELSE (IF i \in keep THEN <<rows[i]>> ELSE <<>>) \o Pick(rows, keep, i + 1)

StopTimeFiles ==
  { Pick(StopTimeRows, keep, 1) :
      keep \in {k \in SUBSET (1..Len(StopTimeRows)) : Cardinality(k) <= MaxRows} }

(* Rows that calendar_dates.txt may hold for Friday 2024-01-05 *)
ExceptionRows ==
  { [service_id |-> s, date |-> 20240105, exception_type |-> e] :
      s \in {"WK", "SA"}, e \in {1, 2} }

RECURSIVE SeqsUpTo(_, _)
SeqsUpTo(S, n) ==
  IF n = 0 THEN {<<>>}
  ELSE LET shorter == SeqsUpTo(S, n - 1)
       IN  shorter \cup {Append(s, x) : s \in shorter, x \in S}

(* calendar_dates.txt of the schedule specification: no exception, or the  *)
(* Saturday service added and the weekday service removed on the Friday.   *)
CalendarDateFiles ==
  { <<>>,
    << [service_id |-> "SA", date |-> 20240105, exception_type |-> 1],
       [service_id |-> "WK", date |-> 20240105, exception_type |-> 2] >> }

---------------------------------------------------------------------------
(* Active services                                                         *)

InCalendar(iso, dow) ==
  { calendar[i].service_id : i \in
      { j \in 1..Len(calendar) :
          /\ iso >= calendar[j].start_date /\ iso <= calendar[j].end_date
          /\ dow \in calendar[j].days } }

ExceptionsOn(rows, iso, type) ==
  { rows[i].service_id : i \in
      { j \in 1..Len(rows) : rows[j].date = iso /\ rows[j].exception_type = type } }

(* schedule-sqlite.js: calendar rows, then every type-1 row of the date,   *)
(* then every type-2 row of the date.                                      *)
activeServiceIds(calendarDatesRows, dLoc) ==
  LET iso == isoDate(dLoc)
  IN  (InCalendar(iso, getDay(dLoc)) \cup ExceptionsOn(calendarDatesRows, iso, 1))
        \ ExceptionsOn(calendarDatesRows, iso, 2)

(* The streaming backends apply the rows of calendar_dates in file order.  *)
RECURSIVE ApplyExceptionRows(_, _, _)
ApplyExceptionRows(active, rows, iso) ==
  IF rows = <<>> THEN active
  ELSE LET r == Head(rows)
           a == IF r.date # iso THEN active
                ELSE IF r.exception_type = 1 THEN active \cup {r.service_id}
                ELSE IF r.exception_type = 2 THEN active \ {r.service_id}
                ELSE active
       IN  ApplyExceptionRows(a, Tail(rows), iso)

(* part_008 *)
serviceActiveTodaySets(calendarDatesRows, dateLocal) ==
  ApplyExceptionRows(InCalendar(isoDate(dateLocal), getDay(dateLocal)),
                     calendarDatesRows, isoDate(dateLocal))

(* gtfsZipSchedule.js *)
activeServiceIdsZip(calendarDatesRows, dLoc) ==
  ApplyExceptionRows(InCalendar(isoDate(dLoc), getDay(dLoc)),
                     calendarDatesRows, isoDate(dLoc))

(* part_007: the UTC date of the instant itself *)
serviceActiveTodaySetsUTC(calendarDatesRows, theDate) ==
  ApplyExceptionRows(InCalendar(isoDateUTC(theDate), getUTCDay(theDate)),
                     calendarDatesRows, isoDateUTC(theDate))

---------------------------------------------------------------------------
(* Station expansion and route names                                       *)

StopRow(stopId) == {i \in 1..Len(stops) : stops[i].stop_id = stopId}
ChildrenOf(stopId) ==
  LET IsKid(r) == r.parent_station = stopId
      kids == SelectSeq(stops, IsKid)
  IN  [i \in 1..Len(kids) |-> kids[i].stop_id]

(* The expansion without the location_type test: the children of any stop  *)
expandAnyParent(stopId) ==
  IF ChildrenOf(stopId) # <<>> THEN ChildrenOf(stopId) ELSE <<stopId>>

(* lib/sqlite.js *)
expandStationStopIds(stopId) ==
  IF /\ StopRow(stopId) # {}
     /\ \A i \in StopRow(stopId) : stops[i].location_type = 1
     /\ ChildrenOf(stopId) # <<>>
    THEN ChildrenOf(stopId)
    ELSE <<stopId>>

(* part_008, over the stops index built from stops.txt *)
expandStopIdsIfStationFromZip(stopId) ==
  IF /\ \E i \in StopRow(stopId) : stops[i].location_type = 1
     /\ ChildrenOf(stopId) # <<>>
    THEN ChildrenOf(stopId)
    ELSE <<stopId>>

TripRow(tid) == trips[CHOOSE i \in 1..Len(trips) : trips[i].trip_id = tid]

(* names.get(route_id) || '' *)
routeShortNamesForRouteIds(rid) ==
  LET hit == {i \in 1..Len(routes) : routes[i].route_id = rid}
  IN  IF hit = {} THEN <<>> ELSE routes[CHOOSE i \in hit : TRUE].route_short_name

(* s === ref || s.startsWith(ref), both lower-cased; no filter without ref *)
MatchesRouteRef(short, routeRef) ==
  \/ routeRef = NoRef
  \/ startsWith(toLowerCase(short), toLowerCase(routeRef))

(* part_007: exact match *)
MatchesRouteRefExact(short, routeRef) ==
  \/ routeRef = NoRef
  \/ toLowerCase(short) = toLowerCase(routeRef)

(* A trip whose service is listed in calendar.txt, whatever the date *)
TripInCalendar(t, services) ==
  \E i \in 1..Len(calendar) : calendar[i].service_id = t.service_id

(* .filter(t => services.has(String(t.service_id))) *)
TripIsActive(t, services) == t.service_id \in services

(* out.sort((a,b) => new Date(a.when) - new Date(b.when)): a stable sort   *)
RECURSIVE InsertByWhen(_, _)
InsertByWhen(sorted, r) ==
  IF sorted = <<>> THEN <<r>>
  ELSE IF DateParse(Head(sorted).when) <= DateParse(r.when)
         THEN <<Head(sorted)>> \o InsertByWhen(Tail(sorted), r)
         ELSE <<r>> \o sorted
RECURSIVE SortByWhen(_)
SortByWhen(s) ==
  IF s = <<>> THEN <<>>
  ELSE InsertByWhen(SortByWhen(SubSeq(s, 1, Len(s) - 1)), s[Len(s)])

(* ORDER BY st.departure_time ASC *)
RECURSIVE InsertByDeparture(_, _)
InsertByDeparture(sorted, r) ==
  IF sorted = <<>> THEN <<r>>
  ELSE IF hmsToSec(Head(sorted).departure_time) <= hmsToSec(r.departure_time)
         THEN <<Head(sorted)>> \o InsertByDeparture(Tail(sorted), r)
         ELSE <<r>> \o sorted
RECURSIVE OrderByDeparture(_)
OrderByDeparture(s) ==
  IF s = <<>> THEN <<>>
  ELSE InsertByDeparture(OrderByDeparture(SubSeq(s, 1, Len(s) - 1)), s[Len(s)])

(* out.slice(0, Math.max(1, limit)) *)
slice(out, limit) == SubSeq(out, 1, Min(Len(out), Max(1, limit)))

(* One arrival record.  tid, stop and sec are not part of the JSON: they   *)
(* record the stop_times row the record was built from.                    *)
Arrival(t, short, when, w) ==
  [routeShortName |-> short, headsign |-> t.trip_headsign, when |-> when,
   realtime |-> FALSE, tid |-> w.tid, stop |-> w.stop_id, sec |-> w.depSec]

Public(out) ==
  [i \in 1..Len(out) |->
     [routeShortName |-> out[i].routeShortName, headsign |-> out[i].headsign,
      when |-> out[i].when, realtime |-> out[i].realtime]]

---------------------------------------------------------------------------
(* schedule-sqlite.js: nextArrivalsFromSchedule, with the database open    *)

sqliteNextArrivals(stopId, limit, routeRef, now) ==
  LET nowLoc == toLocal(now)
      dayStart == localMidnight(nowLoc)
      nowSec == DaySeconds(nowLoc)
      horizonSec == nowSec + 360 * 60
      services == activeServiceIds(calendar_dates, nowLoc)
      stopIds == expandStationStopIds(stopId)
      AtStops(r) == r.stop_id \in Range(stopIds) /\ r.departure_time # <<>>
      rows == OrderByDeparture(SelectSeq(stop_times, AtStops))
      InWindow(r) == LET sec == hmsToSec(r.departure_time)
                     IN  ~(sec = NoSec \/ sec < nowSec \/ sec > horizonSec)
      inWin == SelectSeq(rows, InWindow)
      wanted == [i \in 1..Len(inWin) |->
                   [tid |-> inWin[i].trip_id, depSec |-> hmsToSec(inWin[i].departure_time),
                    stop_id |-> inWin[i].stop_id]]
      tids == {wanted[i].tid : i \in 1..Len(wanted)}
      tripIds == {t.trip_id : t \in {u \in Range(trips) :
                                       u.trip_id \in tids /\ TripIsActive(u, services)}}
      Keep(w) == /\ w.tid \in tripIds
                 /\ MatchesRouteRef(routeShortNamesForRouteIds(TripRow(w.tid).route_id),
                                    routeRef)
      kept == SelectSeq(wanted, Keep)
      out == [i \in 1..Len(kept) |->
                Arrival(TripRow(kept[i].tid),
                        routeShortNamesForRouteIds(TripRow(kept[i].tid).route_id),
                        secToIso(dayStart, kept[i].depSec), kept[i])]
  IN  slice(SortByWhen(out), limit)

(* schedule-sqlite.js: linesAtStopWindow, with the database open.  Each    *)
(* name carries the trips whose rows put its route into routeIds.          *)
CharRank(c) == CASE c = "3" -> 3 [] c = "8" -> 8 [] OTHER -> 10
RECURSIVE localeCompare(_, _)    \* String(a).localeCompare(String(b), undefined, {numeric: true})
localeCompare(a, b) ==
  IF a = <<>> THEN (IF b = <<>> THEN 0 ELSE 0 - 1)
  ELSE IF b = <<>> THEN 1
  ELSE IF CharRank(Head(a)) < CharRank(Head(b)) THEN 0 - 1
  ELSE IF CharRank(Head(a)) > CharRank(Head(b)) THEN 1
  ELSE localeCompare(Tail(a), Tail(b))
RECURSIVE InsertByName(_, _)
InsertByName(sorted, r) ==
  IF sorted = <<>> THEN <<r>>
  ELSE IF localeCompare(Head(sorted).routeShortName, r.routeShortName) <= 0
         THEN <<Head(sorted)>> \o InsertByName(Tail(sorted), r)
         ELSE <<r>> \o sorted
RECURSIVE SortByName(_)
SortByName(s) ==
  IF s = <<>> THEN <<>>
  ELSE InsertByName(SortByName(SubSeq(s, 1, Len(s) - 1)), s[Len(s)])

sqliteLines(stopId, windowMin, now) ==
  LET nowLoc == toLocal(now)
      nowSec == DaySeconds(nowLoc)
      horizonSec == nowSec + Max(5, windowMin) * 60
      services == activeServiceIds(calendar_dates, nowLoc)
      stopIds == expandStationStopIds(stopId)
      Passes(r) == LET sec == hmsToSec(r.departure_time)
                   IN  /\ r.stop_id \in Range(stopIds) /\ r.departure_time # <<>>
                       /\ sec # NoSec /\ ~(sec < nowSec \/ sec > horizonSec)
                       /\ TripIsActive(TripRow(r.trip_id), services)
      rows == SelectSeq(stop_times, Passes)
      routeIds == {TripRow(rows[i].trip_id).route_id : i \in 1..Len(rows)}
      Named(r) == r.route_id \in routeIds
      named == SelectSeq(routes, Named)
      TripsOf(rid) == {rows[i].trip_id : i \in
                         {j \in 1..Len(rows) : TripRow(rows[j].trip_id).route_id = rid}}
      recs == [i \in 1..Len(named) |->
                 [routeShortName |-> named[i].route_short_name,
                  tids |-> TripsOf(named[i].route_id)]]
  IN  SortByName(recs)

---------------------------------------------------------------------------
(* Streaming backends: nextArrivalsFromZipStreaming                        *)

(* wantedTrips after the first n rows of stop_times.txt: one entry per     *)
(* trip, in the order the trips were first seen.  gtfsZipSchedule.js keeps *)
(* the bare number of seconds, so its `!prev` is also true for 0.          *)
RECURSIVE wantedTrips(_, _, _, _, _)
wantedTrips(n, stopIds, nowSec, horizonSec, bareSeconds) ==
  IF n = 0 THEN <<>>
  ELSE LET w == wantedTrips(n - 1, stopIds, nowSec, horizonSec, bareSeconds)
           r == stop_times[n]
           depSec == timeToSeconds(r.departure_time)
           at == {i \in 1..Len(w) : w[i].tid = r.trip_id}
           e == [tid |-> r.trip_id, depSec |-> depSec, stop_id |-> r.stop_id]
       IN  IF \/ r.stop_id \notin stopIds
              \/ depSec = NoSec \/ depSec < nowSec \/ depSec > horizonSec
             THEN w
           ELSE IF at = {} THEN Append(w, e)
           ELSE LET i == CHOOSE k \in at : TRUE
                IN  IF (bareSeconds /\ w[i].depSec = 0) \/ depSec < w[i].depSec
                      THEN [w EXCEPT ![i] = e]
                      ELSE w

(* part_008, lines 174-249: the scan behind a cache miss *)
zipScan(stopIds, routeRef, limit, now) ==
  LET nowLocal == toLocal(now)
      dayStartLocal == localMidnight(nowLocal)
      nowDaySec == DaySeconds(nowLocal)
      horizonSec == nowDaySec + horizonMin * 60
      activeServices == serviceActiveTodaySets(calendar_dates, nowLocal)
      wanted == wantedTrips(Len(stop_times), Range(stopIds), nowDaySec, horizonSec, FALSE)
      wantedTripIds == {wanted[i].tid : i \in 1..Len(wanted)}
      tripInfo == {t.trip_id : t \in {u \in Range(trips) :
                     /\ u.trip_id \in wantedTripIds
                     /\ TripIsActive(u, activeServices)
                     /\ u.route_id # ""}}
      Keep(w) == /\ w.tid \in tripInfo
                 /\ MatchesRouteRef(routeShortNamesForRouteIds(TripRow(w.tid).route_id),
                                    routeRef)
      kept == SelectSeq(wanted, Keep)
      out == [i \in 1..Len(kept) |->
                Arrival(TripRow(kept[i].tid),
                        routeShortNamesForRouteIds(TripRow(kept[i].tid).route_id),
                        secondsToWhenLocal(dayStartLocal, kept[i].depSec), kept[i])]
  IN  slice(SortByWhen(out), limit)

(* gtfsZipSchedule.js, lines 72-127: no result cache; records are built in *)
(* the order of trips.txt.                                                 *)
zipScanGz(stopIds, routeRef, limit, now) ==
  LET nowLoc == toLocal(now)
      dayStart == localMidnight(nowLoc)
      nowSec == DaySeconds(nowLoc)
      horizonSec == nowSec + horizonMin * 60
      services == activeServiceIdsZip(calendar_dates, nowLoc)
      wanted == wantedTrips(Len(stop_times), Range(stopIds), nowSec, horizonSec, TRUE)
      Entry(tid) == wanted[CHOOSE i \in 1..Len(wanted) : wanted[i].tid = tid]
      Keep(t) == /\ t.trip_id \in {wanted[i].tid : i \in 1..Len(wanted)}
                 /\ TripIsActive(t, services)
                 /\ MatchesRouteRef(routeShortNamesForRouteIds(t.route_id), routeRef)
      kept == SelectSeq(trips, Keep)
      out == [i \in 1..Len(kept) |->
                Arrival(kept[i], routeShortNamesForRouteIds(kept[i].route_id),
                        secToIso(dayStart, Entry(kept[i].trip_id).depSec),
                        Entry(kept[i].trip_id))]
  IN  IF stopIds = <<>> THEN <<>> ELSE slice(SortByWhen(out), limit)

(* part_008: the result cache, a Map in insertion order *)
todayKeyLocal(d) == isoDate(toLocal(d))
arrKey(stopIds, routeRef, limit, now) ==
  [date |-> todayKeyLocal(now), stopIds |-> Range(stopIds),
   routeRef |-> routeRef, limit |-> limit, horizonMin |-> horizonMin]

lruAt(key) == {i \in 1..Len(LRU) : LRU[i].key = key}
lruDelete(key) ==
  LET Other(e) == e.key # key IN SelectSeq(LRU, Other)
lruHit(key) ==
  \E i \in lruAt(key) : ~(clock - LRU[i].t > LRU_TTL_MS)
(* The Map after lruGet: an expired entry is deleted, a live one is moved  *)
(* to the end.                                                             *)
lruGet(key) ==
  IF lruAt(key) = {} THEN LRU
  ELSE IF lruHit(key) THEN Append(lruDelete(key), LRU[CHOOSE i \in lruAt(key) : TRUE])
  ELSE lruDelete(key)
lruData(key) == LRU[CHOOSE i \in lruAt(key) : TRUE].data
(* lruSet with the bound as a parameter: Map.set keeps the place of a key  *)
(* that is present; then the first keys are deleted while size > max       *)
lruSetMax(map, key, data, max) ==
  LET e == [key |-> key, t |-> clock, data |-> data]
      at == {i \in 1..Len(map) : map[i].key = key}
      m == IF at = {} THEN Append(map, e)
           ELSE [map EXCEPT ![CHOOSE i \in at : TRUE] = e]
  IN  IF Len(m) > max THEN SubSeq(m, Len(m) - max + 1, Len(m)) ELSE m
lruSet(map, key, data) == lruSetMax(map, key, data, LRU_MAX)

(* part_008, lines 166-252: the value returned and the cache afterwards *)
nextArrivalsFromZipStreaming008(stopIds, routeRef, limit, now) ==
  LET key == arrKey(stopIds, routeRef, limit, now)
  IN  IF stopIds = <<>> THEN [out |-> <<>>, cached |-> FALSE, lru |-> LRU]
      ELSE IF lruHit(key)
        THEN [out |-> lruData(key), cached |-> TRUE, lru |-> lruGet(key)]
      ELSE LET capped == zipScan(stopIds, routeRef, limit, now)
           IN  [out |-> capped, cached |-> FALSE, lru |-> lruSet(lruGet(key), key, capped)]

---------------------------------------------------------------------------
(* Static schedule queries as steps.  q records the last call: what was    *)
(* called, with which instant and stop ids, and what it returned.          *)

IdleQ == [fn |-> "none", impl |-> "none", now |-> 0, stopIds |-> <<>>,
          out |-> <<>>, cached |-> FALSE, notReady |-> FALSE,
          services |-> {}, date |-> 0, sec |-> NoSec, when |-> <<>>,
          pass |-> FALSE, status |-> "returned", artifact |-> TRUE]

(* Who may call openTtcSqlite at the same time: the priming loop and two   *)
(* requests.  No call is under way, DB = null (handle 0).                  *)
Callers == {"prime", "req1", "req2"}
IdleOpens == [call |-> [c \in Callers |-> [pc |-> "idle", got |-> 0, n |-> 0]],
              DB |-> 0, handles |-> 0, downloads |-> 0, overlapped |-> FALSE]

(* No read request made yet *)
IdleReq == [path |-> "none", impl |-> "none", ready |-> FALSE, openCalled |-> FALSE,
            outcome |-> "none"]

(* No store configured; no resolver call made yet *)
NoPg == [pool |-> FALSE, stops |-> <<>>]
IdleRes == [fn |-> "none", impl |-> "none", stopRef |-> <<>>, queryFails |-> FALSE,
            status |-> "none", id |-> <<>>, out |-> <<>>, filtered |-> <<>>,
            searched |-> FALSE,
            opened |-> FALSE]

(* primeSQLite not called yet *)
IdlePrime == [impl |-> "none", pc |-> "idle", caller |-> "none", last |-> "none",
              tries |-> 0, wait |-> 0]

(* No ensureZipLocal call under way, nothing on disk: no path leads to a   *)
(* file (0), no file has content                                           *)
ZipCallers == {"req1", "req2"}
NoFile == 0
IdleDisk == [impl |-> "none", final |-> NoFile, tmp |-> NoFile,
             bytes |-> [f \in {1, 2} |-> <<>>],
             call |-> [c \in ZipCallers |->
                         [pc |-> "idle", fd |-> NoFile, off |-> 0, ret |-> "none",
                          net |-> FALSE, left |-> <<>>, late |-> FALSE]]]

(* No fetchRT call made yet *)
NoStart == -1
IdleFetches == [flights |-> {}, lastOk |-> {}, order |-> <<>>,
                ret |-> [kind |-> "none", url |-> "none", at |-> 0, hit |-> FALSE, t |-> NoStart,
                         okBefore |-> NoStart, msg |-> <<>>, err |-> FALSE]]

(* No realtime call made yet *)
IdleRt == [fn |-> "none", outcome |-> "none", err |-> FALSE, fetched |-> FALSE,
           now |-> 0, fromEpochSec |-> 0, minTs |-> 0, cacheBefore |-> <<>>, out |-> <<>>,
           impl |-> "part_005", sqliteOk |-> TRUE, zipOk |-> TRUE, zipRead |-> FALSE]

StopIdArgs == {"S", "A"}                    \* a station and one of its platforms
LimitArgs == {1, 2}
RouteRefArgs == {NoRef, <<"8", "3">>}
Args == [stopId : StopIdArgs, limit : LimitArgs, routeRef : RouteRefArgs]

(* schedule-sqlite.js: nextArrivalsFromSchedule('ttc', stopId, {limit,     *)
(* routeRef, fromTime})                                                    *)
nextArrivalsFromScheduleAt(nows) ==
  /\ nCalls < MaxCalls
  /\ \E now \in nows :
       q' = [IdleQ EXCEPT
               !.fn = "nextArrivalsFromSchedule", !.impl = "schedule-sqlite.js",
               !.now = now, !.notReady = ~sqliteReady, !.artifact = sqliteReady,
               !.stopIds = IF sqliteReady THEN expandStationStopIds(arg.stopId) ELSE <<>>,
               !.services = IF sqliteReady
                              THEN activeServiceIds(calendar_dates, toLocal(now)) ELSE {},
               !.out = IF sqliteReady
                         THEN sqliteNextArrivals(arg.stopId, arg.limit, arg.routeRef, now)
                         ELSE <<>>]
  /\ nCalls' = nCalls + 1
  /\ UNCHANGED <<stop_times, calendar_dates, hostOffset, arg, sqliteReady, LRU, clock,
                 dlVars, zipVars, extVars>>

nextArrivalsFromSchedule == nextArrivalsFromScheduleAt(Nows)

(* schedule.js: nextArrivalsFromSchedule('ttc', stopId, ...) hands         *)
(* stopIds: [String(stopId)] to the streaming backend                      *)
nextArrivalsFromScheduleZip ==
  /\ nCalls < MaxCalls
  /\ \E now \in Nows :
       LET r == nextArrivalsFromZipStreaming008(<<arg.stopId>>, arg.routeRef, arg.limit, now)
       IN  /\ q' = [IdleQ EXCEPT
                      !.fn = "nextArrivalsFromSchedule", !.impl = "schedule.js",
                      !.now = now, !.stopIds = <<arg.stopId>>,
                      !.services = serviceActiveTodaySets(calendar_dates, toLocal(now)),
                      !.out = r.out, !.cached = r.cached]
           /\ LRU' = r.lru
  /\ nCalls' = nCalls + 1
  /\ UNCHANGED <<stop_times, calendar_dates, hostOffset, arg, sqliteReady, clock,
                 dlVars, zipVars, extVars>>

(* part_008: nextArrivalsFromZipStreaming({stopIds, routeRef, limit, now}) *)
(* with the stop ids expandStopIdsIfStationFromZip gives for the stop      *)
nextArrivalsFromZipStreamingAt(nows) ==
  /\ nCalls < MaxCalls
  /\ \E now \in nows :
       LET stopIds == expandStopIdsIfStationFromZip(arg.stopId)
           r == nextArrivalsFromZipStreaming008(stopIds, arg.routeRef, arg.limit, now)
       IN  /\ q' = [IdleQ EXCEPT
                      !.fn = "nextArrivalsFromZipStreaming", !.impl = "part_008",
                      !.now = now, !.stopIds = stopIds,
                      !.services = serviceActiveTodaySets(calendar_dates, toLocal(now)),
                      !.out = r.out, !.cached = r.cached]
           /\ LRU' = r.lru
  /\ nCalls' = nCalls + 1
  /\ UNCHANGED <<stop_times, calendar_dates, hostOffset, arg, sqliteReady, clock,
                 dlVars, zipVars, extVars>>

nextArrivalsFromZipStreaming == nextArrivalsFromZipStreamingAt(Nows)

(* gtfsZipSchedule.js: nextArrivalsFromZipStreaming over the same stop ids *)
nextArrivalsFromZipStreamingGz ==
  /\ nCalls < MaxCalls
  /\ \E now \in Nows :
       LET stopIds == expandStationStopIds(arg.stopId)
       IN  q' = [IdleQ EXCEPT
                   !.fn = "nextArrivalsFromZipStreaming", !.impl = "gtfsZipSchedule.js",
                   !.now = now, !.stopIds = stopIds,
                   !.services = activeServiceIdsZip(calendar_dates, toLocal(now)),
                   !.out = zipScanGz(stopIds, arg.routeRef, arg.limit, now)]
  /\ nCalls' = nCalls + 1
  /\ UNCHANGED <<stop_times, calendar_dates, hostOffset, arg, sqliteReady, LRU, clock,
                 dlVars, zipVars, extVars>>

(* schedule-sqlite.js: linesAtStopWindow('ttc', stopId) at instant now     *)
linesAtStopWindow ==
  /\ nCalls < MaxCalls
  /\ \E now \in Nows :
       q' = [IdleQ EXCEPT
               !.fn = "linesAtStopWindow", !.impl = "schedule-sqlite.js",
               !.now = now, !.notReady = ~sqliteReady, !.artifact = sqliteReady,
               !.stopIds = IF sqliteReady THEN expandStationStopIds(arg.stopId) ELSE <<>>,
               !.services = IF sqliteReady
                              THEN activeServiceIds(calendar_dates, toLocal(now)) ELSE {},
               !.out = IF sqliteReady THEN sqliteLines(arg.stopId, 60, now) ELSE <<>>]
  /\ nCalls' = nCalls + 1
  /\ UNCHANGED <<stop_times, calendar_dates, hostOffset, arg, sqliteReady, LRU, clock,
                 dlVars, zipVars, extVars>>

(* lib/sqlite.js: primeSQLite has opened the snapshot *)
primeSQLite ==
  /\ ~sqliteReady
  /\ sqliteReady' = TRUE
  /\ UNCHANGED <<stop_times, calendar_dates, hostOffset, arg, LRU, clock, q, nCalls,
                 dlVars, zipVars, extVars>>

(* Date.now() moves on *)
ClockTick ==
  /\ clock < MaxClockTicks * TickMs
  /\ clock' = clock + TickMs
  /\ UNCHANGED <<stop_times, calendar_dates, hostOffset, arg, sqliteReady, LRU, q, nCalls,
                 dlVars, zipVars, extVars>>

---------------------------------------------------------------------------
(* The active-service computations applied to a calendar_dates file        *)

activeServiceIdsCall ==
  /\ \E now \in Nows :
       q' = [IdleQ EXCEPT !.fn = "activeServiceIds", !.impl = "schedule-sqlite.js",
               !.now = now, !.date = isoDate(toLocal(now)),
               !.services = activeServiceIds(calendar_dates, toLocal(now))]
  /\ UNCHANGED <<stop_times, calendar_dates, hostOffset, arg, sqliteReady, LRU, clock,
                 nCalls, dlVars, zipVars, extVars>>

serviceActiveTodaySetsCall ==
  /\ \E now \in Nows :
       q' = [IdleQ EXCEPT !.fn = "activeServiceIds", !.impl = "part_008",
               !.now = now, !.date = isoDate(toLocal(now)),
               !.services = serviceActiveTodaySets(calendar_dates, toLocal(now))]
  /\ UNCHANGED <<stop_times, calendar_dates, hostOffset, arg, sqliteReady, LRU, clock,
                 nCalls, dlVars, zipVars, extVars>>

activeServiceIdsZipCall ==
  /\ \E now \in Nows :
       q' = [IdleQ EXCEPT !.fn = "activeServiceIds", !.impl = "gtfsZipSchedule.js",
               !.now = now, !.date = isoDate(toLocal(now)),
               !.services = activeServiceIdsZip(calendar_dates, toLocal(now))]
  /\ UNCHANGED <<stop_times, calendar_dates, hostOffset, arg, sqliteReady, LRU, clock,
                 nCalls, dlVars, zipVars, extVars>>

serviceActiveTodaySetsUTCCall ==
  /\ \E now \in Nows :
       q' = [IdleQ EXCEPT !.fn = "activeServiceIds", !.impl = "part_007",
               !.now = now, !.date = isoDateUTC(now),
               !.services = serviceActiveTodaySetsUTC(calendar_dates, now)]
  /\ UNCHANGED <<stop_times, calendar_dates, hostOffset, arg, sqliteReady, LRU, clock,
                 nCalls, dlVars, zipVars, extVars>>

---------------------------------------------------------------------------
(* The conversion of one stop_times row's departure_time to a timestamp    *)

DepartureTimes ==
  { <<0, 0, 0>>, <<8, 0, 0>>, <<23, 59, 59>>, <<24, 0, 0>>, <<25, 30, 0>>,
    <<25, 30>>, <<47, 59, 59>>, <<>> }

(* schedule-sqlite.js: hmsToSec, then secToIso(dayStart, sec) *)
secToIsoCall ==
  /\ \E now \in Nows :
       LET sec == hmsToSec(stop_times[1].departure_time)
       IN  q' = [IdleQ EXCEPT !.fn = "when", !.impl = "schedule-sqlite.js",
                   !.now = now, !.sec = sec,
                   !.when = IF sec = NoSec THEN <<>>
                            ELSE secToIso(localMidnight(toLocal(now)), sec)]
  /\ UNCHANGED <<stop_times, calendar_dates, hostOffset, arg, sqliteReady, LRU, clock,
                 nCalls, dlVars, zipVars, extVars>>

(* part_008: timeToSeconds, then secondsToWhenLocal(dayStartLocal, sec) *)
secondsToWhenLocalCall ==
  /\ \E now \in Nows :
       LET sec == timeToSeconds(stop_times[1].departure_time)
       IN  q' = [IdleQ EXCEPT !.fn = "when", !.impl = "part_008",
                   !.now = now, !.sec = sec,
                   !.when = IF sec = NoSec THEN <<>>
                            ELSE secondsToWhenLocal(localMidnight(toLocal(now)), sec)]
  /\ UNCHANGED <<stop_times, calendar_dates, hostOffset, arg, sqliteReady, LRU, clock,
                 nCalls, dlVars, zipVars, extVars>>

(* part_007: timeToSeconds, then secondsToWhen(depSec, now) *)
secondsToWhenCall ==
  /\ \E now \in Nows :
       LET sec == timeToSeconds(stop_times[1].departure_time)
       IN  q' = [IdleQ EXCEPT !.fn = "when", !.impl = "part_007",
                   !.now = now, !.sec = sec,
                   !.when = IF sec = NoSec THEN <<>> ELSE secondsToWhen(sec, now)]
  /\ UNCHANGED <<stop_times, calendar_dates, hostOffset, arg, sqliteReady, LRU, clock,
                 nCalls, dlVars, zipVars, extVars>>

---------------------------------------------------------------------------
(* Specifications                                                          *)

InitDL ==
  /\ \E s \in 1..MaxRemoteSize : remote = [size |-> s, ver |-> 1, was |-> 0]
  /\ \E n \in 0..remote.size : file = Prefix(RemoteBody(0), n)
  /\ fileAge = 0
  /\ tmp = <<>>
  /\ pc = "idle"
  /\ dl = IdleDl
  /\ zip = <<>> /\ zipAge = 0 /\ zipTmp = <<>> /\ zc = IdleZc
  /\ disk = IdleDisk
  /\ fetches = IdleFetches
  /\ req = IdleReq
  /\ opens = IdleOpens
  /\ res = IdleRes
  /\ pg = NoPg
  /\ prime = IdlePrime
  /\ net = "up"
  /\ LRU7 = <<>>
  /\ zipHasDates = TRUE
  /\ env = [SQLITE_URL |-> TRUE, GTFS_URL |-> TRUE]
  /\ rt = IdleRt
  /\ RT_CACHE = <<>>
  /\ feed = <<>>
  /\ routeShort = <<>>
  /\ stops = StopsTxt
  /\ stop_times = <<>> /\ calendar_dates = <<>> /\ hostOffset = TorontoOffset
  /\ arg = [stopId |-> "A", limit |-> 1, routeRef |-> NoRef]
  /\ sqliteReady = FALSE /\ LRU = <<>> /\ clock = 0 /\ q = IdleQ /\ nCalls = 0

NextDL ==
  \/ ensureSqliteLocal
  \/ httpHeadSize
  \/ downloadAttemptFails
  \/ downloadAttempt
  \/ Return
  \/ Tick

SpecDL == InitDL /\ [][NextDL]_vars

InitZip ==
  /\ zip \in {<<>>, ZipBody}
  /\ zipAge = 0 /\ zipTmp = <<>> /\ zc = IdleZc
  /\ disk = IdleDisk
  /\ fetches = IdleFetches
  /\ req = IdleReq
  /\ opens = IdleOpens
  /\ res = IdleRes
  /\ pg = NoPg
  /\ prime = IdlePrime
  /\ net = "up"
  /\ LRU7 = <<>>
  /\ zipHasDates = TRUE
  /\ env = [SQLITE_URL |-> TRUE, GTFS_URL |-> TRUE]
  /\ rt = IdleRt
  /\ RT_CACHE = <<>>
  /\ feed = <<>>
  /\ routeShort = <<>>
  /\ stops = StopsTxt
  /\ remote = [size |-> 1, ver |-> 1, was |-> 0]
  /\ file = <<>> /\ fileAge = 0 /\ tmp = <<>> /\ pc = "idle" /\ dl = IdleDl
  /\ stop_times = <<>> /\ calendar_dates = <<>> /\ hostOffset = TorontoOffset
  /\ arg = [stopId |-> "A", limit |-> 1, routeRef |-> NoRef]
  /\ sqliteReady = FALSE /\ LRU = <<>> /\ clock = 0 /\ q = IdleQ /\ nCalls = 0

NextZip ==
  \/ ensureZipLocal
  \/ ZipReturn
  \/ ZipTick

SpecZip == InitZip /\ [][NextZip]_vars

(* Static schedule queries over one feed and one set of call arguments *)
InitSched ==
  /\ stop_times \in StopTimeFiles
  /\ calendar_dates \in CalendarDateFiles
  /\ hostOffset \in HostOffsets
  /\ arg \in Args
  /\ sqliteReady = FALSE /\ LRU = <<>> /\ clock = 0 /\ q = IdleQ /\ nCalls = 0
  /\ remote = [size |-> 1, ver |-> 1, was |-> 0]
  /\ file = <<>> /\ fileAge = 0 /\ tmp = <<>> /\ pc = "idle" /\ dl = IdleDl
  /\ zip = <<>> /\ zipAge = 0 /\ zipTmp = <<>> /\ zc = IdleZc
  /\ disk = IdleDisk
  /\ fetches = IdleFetches
  /\ req = IdleReq
  /\ opens = IdleOpens
  /\ res = IdleRes
  /\ pg = NoPg
  /\ prime = IdlePrime
  /\ net = "up"
  /\ LRU7 = <<>>
  /\ zipHasDates = TRUE
  /\ env = [SQLITE_URL |-> TRUE, GTFS_URL |-> TRUE]
  /\ rt = IdleRt
  /\ RT_CACHE = <<>>
  /\ feed = <<>>
  /\ routeShort = <<>>
  /\ stops = StopsTxt

NextSched ==
  \/ nextArrivalsFromSchedule
  \/ nextArrivalsFromScheduleZip
  \/ nextArrivalsFromZipStreaming
  \/ nextArrivalsFromZipStreamingGz
  \/ linesAtStopWindow
  \/ primeSQLite
  \/ ClockTick

SpecSched == InitSched /\ [][NextSched]_vars

(* The active-service computations over every short calendar_dates file *)
InitCal ==
  /\ calendar_dates \in SeqsUpTo(ExceptionRows, MaxExceptions)
  /\ hostOffset \in HostOffsets
  /\ stop_times = <<>>
  /\ arg = [stopId |-> "A", limit |-> 1, routeRef |-> NoRef]
  /\ sqliteReady = FALSE /\ LRU = <<>> /\ clock = 0 /\ q = IdleQ /\ nCalls = 0
  /\ remote = [size |-> 1, ver |-> 1, was |-> 0]
  /\ file = <<>> /\ fileAge = 0 /\ tmp = <<>> /\ pc = "idle" /\ dl = IdleDl
  /\ zip = <<>> /\ zipAge = 0 /\ zipTmp = <<>> /\ zc = IdleZc
  /\ disk = IdleDisk
  /\ fetches = IdleFetches
  /\ req = IdleReq
  /\ opens = IdleOpens
  /\ res = IdleRes
  /\ pg = NoPg
  /\ prime = IdlePrime
  /\ net = "up"
  /\ LRU7 = <<>>
  /\ zipHasDates = TRUE
  /\ env = [SQLITE_URL |-> TRUE, GTFS_URL |-> TRUE]
  /\ rt = IdleRt
  /\ RT_CACHE = <<>>
  /\ feed = <<>>
  /\ routeShort = <<>>
  /\ stops = StopsTxt

NextCal ==
  \/ activeServiceIdsCall
  \/ serviceActiveTodaySetsCall
  \/ activeServiceIdsZipCall
  \/ serviceActiveTodaySetsUTCCall

SpecCal == InitCal /\ [][NextCal]_vars

(* The time conversions over one stop_times row *)
InitTime ==
  /\ \E t \in DepartureTimes :
       stop_times = << [trip_id |-> "T4", stop_id |-> "B", departure_time |-> t] >>
  /\ hostOffset \in HostOffsets
  /\ calendar_dates = <<>>
  /\ arg = [stopId |-> "A", limit |-> 1, routeRef |-> NoRef]
  /\ sqliteReady = FALSE /\ LRU = <<>> /\ clock = 0 /\ q = IdleQ /\ nCalls = 0
  /\ remote = [size |-> 1, ver |-> 1, was |-> 0]
  /\ file = <<>> /\ fileAge = 0 /\ tmp = <<>> /\ pc = "idle" /\ dl = IdleDl
  /\ zip = <<>> /\ zipAge = 0 /\ zipTmp = <<>> /\ zc = IdleZc
  /\ disk = IdleDisk
  /\ fetches = IdleFetches
  /\ req = IdleReq
  /\ opens = IdleOpens
  /\ res = IdleRes
  /\ pg = NoPg
  /\ prime = IdlePrime
  /\ net = "up"
  /\ LRU7 = <<>>
  /\ zipHasDates = TRUE
  /\ env = [SQLITE_URL |-> TRUE, GTFS_URL |-> TRUE]
  /\ rt = IdleRt
  /\ RT_CACHE = <<>>
  /\ feed = <<>>
  /\ routeShort = <<>>
  /\ stops = StopsTxt

NextTime ==
  \/ secToIsoCall
  \/ secondsToWhenLocalCall
  \/ secondsToWhenCall

SpecTime == InitTime /\ [][NextTime]_vars

---------------------------------------------------------------------------
(* Claims about the download manager                                       *)

(* C1: whenever downloadWithResume starts with a partial local file of     *)
(* size N > 0 and a remote size S > N, its first request carries Range:    *)
(* bytes=N-, and when it returns successfully the final file has exactly   *)
(* S bytes, also when a ranged request was answered with a full 200 body.  *)
C1_ResumeEndsAtRemoteSize ==
  (/\ pc = "returned" /\ dl.op = "sqlite" /\ dl.nReq > 0
   /\ dl.remoteSize # NULL /\ dl.startN > 0 /\ dl.startN < dl.remoteSize)
  => /\ dl.firstRange = dl.startN
     /\ dl.ret = "ok" => Len(file) = dl.remoteSize

(* C2: for ensureSqliteLocal and every ensureZipLocal, a local file with   *)
(* size > 0 and younger than the kind's TTL (24h snapshot, 6h archive) is  *)
(* returned without any network request; the archive TTL is 6h in every    *)
(* implementation, so an archive file 6h old or older is never served      *)
(* without a request.                                                      *)
C2_FreshnessPerKindTtl ==
  /\ (/\ pc = "returned" /\ dl.op = "sqlite"
      /\ dl.callSize > 0 /\ dl.callAge < TTL_SQLITE_MS)
     => (dl.ret = "ok" /\ dl.net = 0)
  /\ (zc.ret # "none" /\ zc.callSize > 0 /\ zc.callAge < TTL_ZIP_MS)
     => (zc.ret = "ok" /\ zc.net = 0)
  /\ (zc.ret # "none" /\ zc.callAge >= TTL_ZIP_MS) => zc.net > 0

(* C3: one call of downloadWithResume issues at most 8 download requests,  *)
(* fails only after 8 attempts have failed, and never reports a failure    *)
(* when every request succeeded and delivered further bytes.               *)
C3_RetryBound ==
  (pc = "returned" /\ dl.op = "sqlite" /\ dl.nReq > 0)
  => /\ dl.nReq <= maxAttempts
     /\ dl.ret = "err" => dl.nFail = maxAttempts
     /\ dl.nFail = 0 => dl.ret = "ok"

(* Sanity: the parts of C1 to C3 that the code does satisfy.               *)
DL_FirstRangeIsLocalSize ==
  (pc = "returned" /\ dl.nReq > 0 /\ dl.startN > 0)
  => dl.firstRange = dl.startN
DL_AtMostMaxAttempts == dl.nReq <= maxAttempts
DL_SuccessHasAtLeastRemoteSize ==
  (pc = "returned" /\ dl.ret = "ok" /\ dl.nReq > 0 /\ dl.remoteSize # NULL)
  => Len(file) >= dl.remoteSize
DL_FreshSnapshotNoNetwork ==
  (/\ pc = "returned" /\ dl.op = "sqlite"
   /\ dl.callSize > 0 /\ dl.callAge < TTL_SQLITE_MS)
  => (dl.ret = "ok" /\ dl.net = 0)
ZIP_FreshByOwnTtlNoNetwork ==
  (zc.ret # "none" /\ zc.callSize > 0 /\ zc.callAge < ZipTtl(zc.impl))
  => (zc.ret = "ok" /\ zc.net = 0)

---------------------------------------------------------------------------
(* Claims about the static schedule queries                                *)

NextArrivalFns == {"nextArrivalsFromSchedule", "nextArrivalsFromZipStreaming"}

(* Toronto seconds-of-day and Toronto midnight of the instant now *)
NowSecondsOfDay(now) == (now + TorontoOffset) % DaySec
TorontoMidnight(now) == ((now + TorontoOffset) \div DaySec) * DaySec - TorontoOffset

IsStation(stopId) ==
  /\ \E i \in StopRow(stopId) : stops[i].location_type = 1
  /\ ChildrenOf(stopId) # <<>>

SortedByWhen(out) ==
  \A i \in 1..(Len(out) - 1) : DateParse(out[i].when) <= DateParse(out[i + 1].when)

InWindowAt(sec, now) ==
  /\ NowSecondsOfDay(now) <= sec
  /\ sec <= NowSecondsOfDay(now) + horizonMin * 60

(* The rows of stop_times that qualify for the call recorded in q at the   *)
(* stop ids ids: inside the window, of a trip of an active service, of a   *)
(* route that matches routeRef.                                            *)
QualifyingRows(ids) ==
  { i \in 1..Len(stop_times) :
      /\ stop_times[i].stop_id \in ids
      /\ InWindowAt(hmsToSec(stop_times[i].departure_time), q.now)
      /\ TripRow(stop_times[i].trip_id).service_id \in q.services
      /\ MatchesRouteRef(
           routeShortNamesForRouteIds(TripRow(stop_times[i].trip_id).route_id),
           arg.routeRef) }

(* C4: a static next-arrivals query through nextArrivalsFromSchedule for a *)
(* station id scans all child platforms of the station and returns the     *)
(* records drawn from them, merged into one list sorted by time and capped *)
(* at the limit, whichever backend the function delegates to.              *)
C4_StationQueryCoversPlatforms ==
  (q.fn = "nextArrivalsFromSchedule" /\ ~q.notReady /\ IsStation(arg.stopId))
  => /\ Range(q.stopIds) = Range(ChildrenOf(arg.stopId))
     /\ \A i \in 1..Len(q.out) : q.out[i].stop \in Range(ChildrenOf(arg.stopId))
     /\ SortedByWhen(q.out)
     /\ Len(q.out) <= Max(1, arg.limit)
     /\ QualifyingRows(Range(ChildrenOf(arg.stopId))) # {} => q.out # <<>>

(* C5: for every feed, stop id set, instant, limit and routeRef the        *)
(* snapshot backend and the streaming backends return the same list of     *)
(* arrival records, in the same order, and compute the same active         *)
(* services.                                                               *)
C5_BackendsInterchangeable ==
  (q.fn = "nextArrivalsFromSchedule" /\ q.impl = "schedule-sqlite.js" /\ ~q.notReady)
  => /\ Public(q.out) = Public(zipScan(q.stopIds, arg.routeRef, arg.limit, q.now))
     /\ Public(q.out) = Public(zipScanGz(q.stopIds, arg.routeRef, arg.limit, q.now))
     /\ q.services = serviceActiveTodaySets(calendar_dates, toLocal(q.now))
     /\ q.services = activeServiceIdsZip(calendar_dates, toLocal(q.now))

(* C6: a type-2 row of calendar_dates for (service, date) keeps the        *)
(* service out of the active set of that date, also when a type-1 row for  *)
(* the same pair exists, whatever the order of the rows; a type-1 row      *)
(* without a type-2 row puts the service into the active set.              *)
C6_ExceptionsOverrideCalendar ==
  q.fn = "activeServiceIds"
  => \A s \in {"WK", "SA"} :
       /\ s \in ExceptionsOn(calendar_dates, q.date, 2) => s \notin q.services
       /\ (/\ s \in ExceptionsOn(calendar_dates, q.date, 1)
           /\ s \notin ExceptionsOn(calendar_dates, q.date, 2)) => s \in q.services

(* The active services of the query's local date, as the called            *)
(* implementation computes them                                            *)
ActiveOn(impl, now) ==
  IF impl = "schedule-sqlite.js" THEN activeServiceIds(calendar_dates, toLocal(now))
  ELSE IF impl = "gtfsZipSchedule.js" THEN activeServiceIdsZip(calendar_dates, toLocal(now))
  ELSE serviceActiveTodaySets(calendar_dates, toLocal(now))

C8_WindowBounds ==
  q.fn \in NextArrivalFns
  => \A i \in 1..Len(q.out) :
       /\ q.out[i].stop \in Range(q.stopIds)
       /\ \E j \in 1..Len(stop_times) :
            /\ stop_times[j].trip_id = q.out[i].tid
            /\ stop_times[j].stop_id = q.out[i].stop
            /\ hmsToSec(stop_times[j].departure_time) = q.out[i].sec
       /\ InWindowAt(q.out[i].sec, q.now)

(* C9: when a trip has several qualifying stop_times rows at the queried   *)
(* stop ids, the result of a fresh scan holds exactly one record for the   *)
(* trip, and it carries the earliest qualifying departure.                 *)
C9_OneRecordPerTrip ==
  (q.fn \in NextArrivalFns /\ ~q.notReady /\ ~q.cached)
  => /\ \A i, j \in 1..Len(q.out) : i # j => q.out[i].tid # q.out[j].tid
     /\ \A i \in 1..Len(q.out) :
          \A j \in QualifyingRows(Range(q.stopIds)) :
            stop_times[j].trip_id = q.out[i].tid
              => q.out[i].sec <= hmsToSec(stop_times[j].departure_time)

(* C10: a departure_time with hours >= 24 is converted to seconds without  *)
(* wrapping and without being rejected, and the timestamp is Toronto       *)
(* midnight of the service day plus that many seconds (25:30:00 gives      *)
(* 01:30 Toronto time on the following day).                               *)
C10_Over24hPreserved ==
  (/\ q.fn = "when"
   /\ Len(stop_times[1].departure_time) >= 2
   /\ stop_times[1].departure_time[1] >= 24)
  => LET t == stop_times[1].departure_time
         sec == t[1] * 3600 + t[2] * 60 + (IF Len(t) >= 3 THEN t[3] ELSE 0)
     IN  /\ q.sec = sec
         /\ q.when = toISOString(TorontoMidnight(q.now) + sec)

(* Sanity: the parts of C4 to C10 that the code does satisfy.              *)
SCHED_SnapshotStationQueryCoversPlatforms ==
  q.impl = "schedule-sqlite.js" => C4_StationQueryCoversPlatforms
SCHED_FreshScanInsideWindow == ~q.cached => C8_WindowBounds
SCHED_StreamingOneRecordPerTrip ==
  q.impl \in {"part_008", "schedule.js", "gtfsZipSchedule.js"} => C9_OneRecordPerTrip
CAL_SnapshotExceptions ==
  q.impl = "schedule-sqlite.js" => C6_ExceptionsOverrideCalendar
TIME_SecondsNotWrapped ==
  (q.fn = "when" /\ Len(stop_times[1].departure_time) >= 2)
  => q.sec = hmsToSec(stop_times[1].departure_time)
TIME_TorontoHostAnchorsAtTorontoMidnight ==
  (q.impl # "part_007" /\ hostOffset = TorontoOffset) => C10_Over24hPreserved

---------------------------------------------------------------------------
(* Claims about time zones, station expansion and route filtering          *)

(* C11: for the same feed and the same absolute query instant the `when`   *)
(* of every record a static next-arrivals query returns is the absolute    *)
(* instant of America/Toronto midnight of the service date plus the        *)
(* departure seconds, whatever the default time zone of the host process.  *)
C11_HostTimezoneIndependent ==
  (q.fn \in NextArrivalFns /\ ~q.notReady)
  => \A i \in 1..Len(q.out) :
       q.out[i].when = toISOString(TorontoMidnight(q.now) + q.out[i].sec)

(* Sanity: on a host whose zone is America/Toronto the anchor is right.    *)
SCHED_TorontoHostWhen == hostOffset = TorontoOffset => C11_HostTimezoneIndependent

---------------------------------------------------------------------------
(* Station expansion over arbitrary stops tables                           *)

(* lib/sqlite.js / part_002: expandStationFromZip, one pass over stops.txt *)
expandStationFromZip(stopId) ==
  LET isStation == \E i \in 1..Len(stops) :
                     stops[i].stop_id = stopId /\ stops[i].location_type = 1
      kids == ChildrenOf(stopId)
  IN  IF isStation /\ Len(kids) > 0 THEN kids ELSE <<stopId>>

(* The stops tables of SpecStops: each of the stop ids is absent or has    *)
(* one row (stop_id is the key of the table), in file order S, A, B.       *)
StopIdsTxt == <<"S", "A", "B">>
StopRowsFor(id) ==
  { [stop_id |-> id, location_type |-> lt, parent_station |-> p] :
      lt \in {0, 1}, p \in {"", "S", "A"} \ {id} }
OptRow(id) == {<<>>} \cup { <<r>> : r \in StopRowsFor(id) }
StopsFiles ==
  { a \o b \o c : a \in OptRow(StopIdsTxt[1]), b \in OptRow(StopIdsTxt[2]),
                  c \in OptRow(StopIdsTxt[3]) }

(* lib/sqlite.js: expandStationStopIds(db, stopId) *)
expandStationStopIdsCall ==
  /\ q' = [IdleQ EXCEPT !.fn = "expandStation", !.impl = "sqlite.js",
             !.stopIds = expandStationStopIds(arg.stopId)]
  /\ UNCHANGED <<stop_times, calendar_dates, hostOffset, arg, sqliteReady, LRU, clock,
                 nCalls, dlVars, zipVars, extVars>>

(* lib/sqlite.js: expandStationFromZip(stopId) *)
expandStationFromZipCall ==
  /\ q' = [IdleQ EXCEPT !.fn = "expandStation", !.impl = "sqlite.js zip",
             !.stopIds = expandStationFromZip(arg.stopId)]
  /\ UNCHANGED <<stop_times, calendar_dates, hostOffset, arg, sqliteReady, LRU, clock,
                 nCalls, dlVars, zipVars, extVars>>

(* part_008: expandStopIdsIfStationFromZip(stopId) *)
expandStopIdsIfStationFromZipCall ==
  /\ q' = [IdleQ EXCEPT !.fn = "expandStation", !.impl = "part_008",
             !.stopIds = expandStopIdsIfStationFromZip(arg.stopId)]
  /\ UNCHANGED <<stop_times, calendar_dates, hostOffset, arg, sqliteReady, LRU, clock,
                 nCalls, dlVars, zipVars, extVars>>

InitStops ==
  /\ stops \in StopsFiles
  /\ arg \in [stopId : Range(StopIdsTxt), routeRef : {NoRef}, limit : {1}]
  /\ stop_times = <<>> /\ calendar_dates = <<>> /\ hostOffset = TorontoOffset
  /\ sqliteReady = TRUE /\ LRU = <<>> /\ clock = 0 /\ q = IdleQ /\ nCalls = 0
  /\ remote = [size |-> 1, ver |-> 1, was |-> 0]
  /\ file = <<>> /\ fileAge = 0 /\ tmp = <<>> /\ pc = "idle" /\ dl = IdleDl
  /\ zip = <<>> /\ zipAge = 0 /\ zipTmp = <<>> /\ zc = IdleZc
  /\ disk = IdleDisk
  /\ fetches = IdleFetches
  /\ req = IdleReq
  /\ opens = IdleOpens
  /\ res = IdleRes
  /\ pg = NoPg
  /\ prime = IdlePrime
  /\ net = "up"
  /\ LRU7 = <<>>
  /\ zipHasDates = TRUE
  /\ env = [SQLITE_URL |-> TRUE, GTFS_URL |-> TRUE]
  /\ rt = IdleRt
  /\ RT_CACHE = <<>>
  /\ feed = <<>>
  /\ routeShort = <<>>

NextStops ==
  \/ expandStationStopIdsCall
  \/ expandStationFromZipCall
  \/ expandStopIdsIfStationFromZipCall

SpecStops == InitStops /\ [][NextStops]_vars

(* The stop ids whose parent_station is id, and whether id is a station *)
KidsOf(id) == { stops[i].stop_id : i \in {j \in 1..Len(stops) : stops[j].parent_station = id} }
IsStationId(id) ==
  \E i \in 1..Len(stops) : stops[i].stop_id = id /\ stops[i].location_type = 1

(* C12: for a stop id whose location_type is 1 the expansion is exactly    *)
(* the set of stop ids whose parent_station is that id, or [id] when there *)
(* is none; for an id that is not a station or is unknown it is [id], even *)
(* if other stops name it as parent; in the snapshot and in both archive   *)
(* implementations.                                                        *)
C12_ExpandStation ==
  q.fn = "expandStation"
  => /\ Range(q.stopIds) =
          IF IsStationId(arg.stopId) /\ KidsOf(arg.stopId) # {}
            THEN KidsOf(arg.stopId) ELSE {arg.stopId}
     /\ Len(q.stopIds) = Cardinality(Range(q.stopIds))

(* A stop that is not a station but is named as parent by another stop has *)
(* been expanded.                                                          *)
C12_Witness ==
  /\ q.fn = "expandStation"
  /\ ~IsStationId(arg.stopId)
  /\ KidsOf(arg.stopId) # {}
  /\ q.stopIds = <<arg.stopId>>

(* Sanity: a station with two platforms expands to both.                   *)
STOPS_StationWithTwoPlatforms ==
  (q.fn = "expandStation" /\ arg.stopId = "S" /\ IsStationId("S")
     /\ KidsOf("S") = {"A", "B"})
  => q.stopIds = <<"A", "B">>

---------------------------------------------------------------------------
(* Route-reference filters                                                 *)

(* part_005 (adapters/ttc.js): routeShortMatches(shortName, routeRef) *)
routeShortMatches(shortName, routeRef) ==
  IF routeRef = NoRef THEN TRUE
  ELSE LET a == toLowerCase(shortName)
           b == toLowerCase(routeRef)
       IN  a = b \/ startsWith(a, b)

RouteNames ==
  { <<"8", "3">>, <<"8", "3", "A">>, <<"8", "3", "a">>, <<"1", "8", "3">>,
    <<"8">>, <<>> }
RouteRefs ==
  { NoRef, <<"8", "3">>, <<"8", "3", "A">>, <<"8", "3", "a">>, <<"8">>,
    <<"1", "8", "3">> }

(* part_005: the filter step of ttc.nextArrivalsByStop *)
routeShortMatchesCall ==
  /\ q' = [IdleQ EXCEPT !.fn = "routeFilter", !.impl = "part_005",
             !.pass = routeShortMatches(routeShort, arg.routeRef)]
  /\ UNCHANGED <<stop_times, calendar_dates, hostOffset, arg, sqliteReady, LRU, clock,
                 nCalls, dlVars, zipVars, extVars>>

(* schedule-sqlite.js:72-81, gtfsZipSchedule.js:114-120, part_008:230-239 *)
routeFilterStaticCall ==
  /\ \E impl \in {"schedule-sqlite.js", "gtfsZipSchedule.js", "part_008"} :
       q' = [IdleQ EXCEPT !.fn = "routeFilter", !.impl = impl,
               !.pass = MatchesRouteRef(routeShort, arg.routeRef)]
  /\ UNCHANGED <<stop_times, calendar_dates, hostOffset, arg, sqliteReady, LRU, clock,
                 nCalls, dlVars, zipVars, extVars>>

(* part_007:197 *)
routeFilterPart007Call ==
  /\ q' = [IdleQ EXCEPT !.fn = "routeFilter", !.impl = "part_007",
             !.pass = MatchesRouteRefExact(routeShort, arg.routeRef)]
  /\ UNCHANGED <<stop_times, calendar_dates, hostOffset, arg, sqliteReady, LRU, clock,
                 nCalls, dlVars, zipVars, extVars>>

InitRoute ==
  /\ routeShort \in RouteNames
  /\ arg \in [stopId : {"A"}, routeRef : RouteRefs, limit : {1}]
  /\ stops = StopsTxt
  /\ stop_times = <<>> /\ calendar_dates = <<>> /\ hostOffset = TorontoOffset
  /\ sqliteReady = TRUE /\ LRU = <<>> /\ clock = 0 /\ q = IdleQ /\ nCalls = 0
  /\ remote = [size |-> 1, ver |-> 1, was |-> 0]
  /\ file = <<>> /\ fileAge = 0 /\ tmp = <<>> /\ pc = "idle" /\ dl = IdleDl
  /\ zip = <<>> /\ zipAge = 0 /\ zipTmp = <<>> /\ zc = IdleZc
  /\ disk = IdleDisk
  /\ fetches = IdleFetches
  /\ req = IdleReq
  /\ opens = IdleOpens
  /\ res = IdleRes
  /\ pg = NoPg
  /\ prime = IdlePrime
  /\ net = "up"
  /\ LRU7 = <<>>
  /\ zipHasDates = TRUE
  /\ env = [SQLITE_URL |-> TRUE, GTFS_URL |-> TRUE]
  /\ rt = IdleRt
  /\ RT_CACHE = <<>>
  /\ feed = <<>>

NextRoute ==
  \/ routeShortMatchesCall
  \/ routeFilterStaticCall
  \/ routeFilterPart007Call

SpecRoute == InitRoute /\ [][NextRoute]_vars

(* Lower-casing and prefix test written out over the characters *)
LowerChar(c) == IF c = "A" THEN "a" ELSE c
IsPrefixIgnoringCase(ref, name) ==
  /\ Len(ref) <= Len(name)
  /\ \A i \in 1..Len(ref) : LowerChar(ref[i]) = LowerChar(name[i])

(* C13: in every path that filters by route reference (realtime adapter,   *)
(* both static backends) a record passes iff no reference is given or its  *)
(* lower-cased route display name equals or starts with the lower-cased    *)
(* reference: "83" keeps "83" and "83A" and drops "183".                   *)
C13_RouteRefPrefixFilter ==
  q.fn = "routeFilter"
  => (q.pass <=> (arg.routeRef = NoRef \/ IsPrefixIgnoringCase(arg.routeRef, routeShort)))

(* Sanity: the realtime adapter and the current static backends do filter  *)
(* by prefix; every path keeps an equal name and drops "183" for "83".     *)
ROUTE_CurrentPathsPrefix == q.impl # "part_007" => C13_RouteRefPrefixFilter
ROUTE_EqualKeptOtherDropped ==
  q.fn = "routeFilter"
  => /\ (arg.routeRef # NoRef /\ toLowerCase(routeShort) = toLowerCase(arg.routeRef))
          => q.pass
     /\ (arg.routeRef = <<"8", "3">> /\ routeShort = <<"1", "8", "3">>) => ~q.pass

---------------------------------------------------------------------------
(* Realtime adapter: part_006 (adapters/base.js), part_005 (adapters/ttc.js) *)

RT_CACHE_TTL_MS == 5000     \* ttlMs = Number(process.env.RT_CACHE_TTL_MS || 5000)
RT_CACHE_MAX == 4           \* if (RT_CACHE.size > 4)
RtTickMs == 3000            \* Date.now() advances in steps of 3 s in SpecRT
MaxRtTicks == 2             \* steps the clock of SpecRT may take
NoTime == -1                \* Number(undefined): NaN
NoEpoch == -1               \* fromEpochSec = undefined

(* One StopTimeUpdate; arrival and departure hold .time or NoTime *)
Stu(stopId, arrival, departure) ==
  [stopId |-> stopId, arrival |-> arrival, departure |-> departure]

(* The entities a feed is made of.  An entity without tripUpdate is a      *)
(* vehicle or alert entity.                                                *)
FeedEntities ==
  { [tripUpdate |-> FALSE, tripId |-> "", routeId |-> "", stopTimeUpdate |-> <<>>],
    [tripUpdate |-> TRUE, tripId |-> "T1", routeId |-> "R1",
     stopTimeUpdate |-> <<Stu("A", 6, NoTime)>>],
    [tripUpdate |-> TRUE, tripId |-> "T1", routeId |-> "R1",
     stopTimeUpdate |-> <<Stu("A", 2, NoTime)>>],
    [tripUpdate |-> TRUE, tripId |-> "T3", routeId |-> "R2",
     stopTimeUpdate |-> <<Stu("B", 6, NoTime), Stu("A", NoTime, 9)>>],
    [tripUpdate |-> TRUE, tripId |-> "T3", routeId |-> "R2",
     stopTimeUpdate |-> <<Stu("A", NoTime, NoTime), Stu("A", 4, 7)>>],
    [tripUpdate |-> TRUE, tripId |-> "T1", routeId |-> "R1",
     stopTimeUpdate |-> <<Stu("A", 9, NoTime), Stu("A", 6, NoTime)>>],
    [tripUpdate |-> TRUE, tripId |-> "T3", routeId |-> "R2",
     stopTimeUpdate |-> <<Stu("B", 6, NoTime)>>] }
MaxEntities == 2
Feeds == SeqsUpTo(FeedEntities, MaxEntities)

(* part_006: defaultStopMatcher *)
anyStopMatcher(rtStopId, targetStopId) == TRUE
defaultStopMatcher(rtStopId, targetStopId) == rtStopId = targetStopId

(* Number(stu.arrival?.time || stu.departure?.time) *)
stuTime(stu) == IF stu.arrival # NoTime THEN stu.arrival ELSE stu.departure

(* RT_CACHE.get / RT_CACHE.set / the eviction of the first key *)
rtAt(cache, url) == {i \in 1..Len(cache) : cache[i].url = url}
rtHas(cache, url) == rtAt(cache, url) # {}
rtGet(cache, url) == cache[CHOOSE i \in rtAt(cache, url) : TRUE]
(* A cache that would move a refreshed key to the end (delete, then set) *)
rtSetMovesToEnd(cache, url, e) ==
  LET put == SelectSeq(cache, LAMBDA c : c.url # url) \o <<e>>
  IN  IF Len(put) > RT_CACHE_MAX THEN Tail(put) ELSE put
rtSet(cache, url, e) ==
  LET put == IF rtHas(cache, url)
               THEN [i \in 1..Len(cache) |-> IF cache[i].url = url THEN e ELSE cache[i]]
               ELSE Append(cache, e)
  IN  IF Len(put) > RT_CACHE_MAX THEN Tail(put) ELSE put

(* part_006: what a failed fetch leaves: the error is thrown, nothing is   *)
(* stored.  serveStaleOnError is the variant that would answer from an     *)
(* expired entry.                                                          *)
serveStaleOnError(cache, url) ==
  IF rtHas(cache, url)
    THEN [err |-> FALSE, msg |-> rtGet(cache, url).msg, cache |-> cache]
    ELSE [err |-> TRUE, msg |-> <<>>, cache |-> cache]
fetchFailed(cache, url) == [err |-> TRUE, msg |-> <<>>, cache |-> cache]

(* part_006: fetchRT(url) at Date.now() = clock, the server answering with *)
(* outcome: "ok", "timeout" (abort) or "status" (!res.ok)                  *)
fetchRT(url, outcome) ==
  LET now == clock
      hit == rtHas(RT_CACHE, url)
  IN  IF hit /\ (now - rtGet(RT_CACHE, url).t) < RT_CACHE_TTL_MS
        THEN [err |-> FALSE, msg |-> rtGet(RT_CACHE, url).msg, cache |-> RT_CACHE,
              fetched |-> FALSE]
      ELSE IF outcome = "ok"
        THEN [err |-> FALSE, msg |-> feed, fetched |-> TRUE,
              cache |-> rtSet(RT_CACHE, url, [url |-> url, t |-> now, msg |-> feed])]
      ELSE [fetched |-> TRUE] @@ fetchFailed(RT_CACHE, url)

(* part_005: the (entity, stopTimeUpdate) pairs of a message in feed order *)
RECURSIVE stuPairs(_, _)
stuPairs(msg, e) ==
  IF e > Len(msg) THEN <<>>
  ELSE (IF msg[e].tripUpdate
          THEN [k \in 1..Len(msg[e].stopTimeUpdate) |-> [e |-> e, k |-> k]]
          ELSE <<>>)
       \o stuPairs(msg, e + 1)

(* rows.sort((a,b) => a.t - b.t), stable *)
RECURSIVE InsertByT(_, _)
InsertByT(sorted, r) ==
  IF sorted = <<>> THEN <<r>>
  ELSE IF Head(sorted).t <= r.t
         THEN <<Head(sorted)>> \o InsertByT(Tail(sorted), r)
         ELSE <<r>> \o sorted
RECURSIVE SortByT(_)
SortByT(s) ==
  IF s = <<>> THEN <<>>
  ELSE InsertByT(SortByT(SubSeq(s, 1, Len(s) - 1)), s[Len(s)])

(* lib/sqlite.js: mapTripIdsToRouteShort for one trip id ("" if no row) *)
mapTripIdsToRouteShort(tid) ==
  LET hit == {i \in 1..Len(trips) : trips[i].trip_id = tid}
  IN  IF hit = {} THEN <<>>
      ELSE routeShortNamesForRouteIds(trips[CHOOSE i \in hit : TRUE].route_id)

(* part_005: the rows of nextArrivalsByStop before names are attached *)
rtRows(msg, stopId, minTs) ==
  LET pairs == stuPairs(msg, 1)
      Keep(p) == LET stu == msg[p.e].stopTimeUpdate[p.k]
                     t == stuTime(stu)
                 IN  /\ defaultStopMatcher(stu.stopId, stopId)
                     /\ ~(t = NoTime \/ t < minTs)
      kept == SelectSeq(pairs, Keep)
  IN  [i \in 1..Len(kept) |->
         [tid |-> msg[kept[i].e].tripId, rid |-> msg[kept[i].e].routeId,
          t |-> stuTime(msg[kept[i].e].stopTimeUpdate[kept[i].k]),
          headsign |-> "", e |-> kept[i].e, k |-> kept[i].k]]

(* part_002:220-235: loadRoutesMapFromZip, the name of a route id in the   *)
(* archive's routes.txt (<<>> if the map has no such key)                  *)
loadRoutesMapFromZip(rid) ==
  LET hit == {i \in 1..Len(routes) :
                /\ routes[i].route_id = rid /\ rid # ""
                /\ routes[i].route_short_name # <<>>}
  IN  IF hit = {} THEN <<>>
      ELSE routes[CHOOSE i \in hit : \A j \in hit : j <= i].route_short_name

(* part_005:27-32: routeIdByTrip.get(tid), set by every trip update that   *)
(* has both a trip id and a route id; a later entity overwrites ("" if     *)
(* the map has no such key)                                                *)
routeIdByTrip(msg, tid) ==
  LET hit == {e \in 1..Len(msg) :
                /\ msg[e].tripUpdate /\ msg[e].tripId = tid
                /\ tid # "" /\ msg[e].routeId # ""}
  IN  IF hit = {} THEN "" ELSE msg[CHOOSE e \in hit : \A j \in hit : j <= e].routeId

(* The two ttc adapters of the repository.  part_005:47 runs the snapshot  *)
(* step only if isSqliteReady(); adapters/ttc.js:50-53 always calls        *)
(* openTtcSqlite and has no routes.txt fallback.                           *)
RtImpls == {"part_005", "adapters/ttc.js"}
snapshotStepRuns(impl) == impl = "part_005" => sqliteReady
hasZipFallback(impl) == impl = "part_005"

(* part_005:45-52, adapters/ttc.js:49-53: shortByTrip after the snapshot   *)
(* step.  sqliteOk = FALSE is openTtcSqlite or the query throwing, which   *)
(* the catch swallows and leaves the map empty.                            *)
shortBySqlite(impl, tid, sqliteOk) ==
  IF snapshotStepRuns(impl) /\ sqliteOk /\ tid # ""
    THEN mapTripIdsToRouteShort(tid) ELSE <<>>

(* part_005:54: ![...shortByTrip.values()].find(Boolean) *)
noNameResolved(impl, rows, sqliteOk) ==
  \A i \in 1..Len(rows) : shortBySqlite(impl, rows[i].tid, sqliteOk) = <<>>

(* part_005:54-62: shortByTrip.get(tid) || '' after both steps.  fallback  *)
(* says that line 54 found no name and loadRoutesMapFromZip did not throw  *)
(* inside the try.                                                         *)
shortByTrip(impl, msg, tid, sqliteOk, fallback) ==
  IF fallback /\ tid # "" /\ loadRoutesMapFromZip(routeIdByTrip(msg, tid)) # <<>>
    THEN loadRoutesMapFromZip(routeIdByTrip(msg, tid))
    ELSE shortBySqlite(impl, tid, sqliteOk)

(* part_005:45-69: names from the snapshot if it is ready, else from       *)
(* routes.txt if no name was found, then filter, sort, cap                 *)
rtFinish(impl, msg, rows, routeRef, limit, sqliteOk, fallback) ==
  LET named == [i \in 1..Len(rows) |->
                  rows[i] @@ [short |-> shortByTrip(impl, msg, rows[i].tid, sqliteOk,
                                                   fallback)]]
      Pass(r) == routeShortMatches(r.short, routeRef)
      capped == slice(SortByT(SelectSeq(named, Pass)), limit)
  IN  [i \in 1..Len(capped) |->
         [when |-> toISOString(capped[i].t), realtime |-> TRUE,
          routeShortName |-> capped[i].short, headsign |-> capped[i].headsign,
          t |-> capped[i].t, e |-> capped[i].e, k |-> capped[i].k]]

(* part_005, adapters/ttc.js: ttc.nextArrivalsByStop(stopId, {limit,       *)
(* routeRef, fromEpochSec}) of the adapter the process has loaded (rt.impl) *)
nextArrivalsByStop ==
  \E outcome \in {"ok", "timeout", "status"}, fromEpochSec \in {NoEpoch, 5} :
  \E f \in {fetchRT("trips", outcome)} :
  \E minTs \in {IF fromEpochSec # NoEpoch THEN fromEpochSec ELSE clock \div 1000} :
  \E rows \in {rtRows(f.msg, arg.stopId, minTs)} :
  \E named \in {~f.err /\ rows # <<>>} :
    \* openTtcSqlite or the query may throw only where it is called, and
    \* loadRoutesMapFromZip only where the fallback runs
    \E sqliteOk \in IF named /\ snapshotStepRuns(rt.impl) THEN BOOLEAN ELSE {TRUE} :
    \E zipRead \in {/\ named /\ hasZipFallback(rt.impl)
                    /\ noNameResolved(rt.impl, rows, sqliteOk)} :
    \E zipOk \in IF zipRead THEN BOOLEAN ELSE {TRUE} :
      /\ RT_CACHE' = f.cache
      /\ rt' = [fn |-> "nextArrivalsByStop", outcome |-> outcome, err |-> f.err,
                fetched |-> f.fetched, now |-> clock, fromEpochSec |-> fromEpochSec,
                minTs |-> minTs, cacheBefore |-> RT_CACHE, impl |-> rt.impl,
                sqliteOk |-> sqliteOk, zipOk |-> zipOk, zipRead |-> zipRead,
                out |-> IF ~named THEN <<>>
                        ELSE rtFinish(rt.impl, f.msg, rows, arg.routeRef, arg.limit,
                                      sqliteOk, zipRead /\ zipOk)]
      /\ UNCHANGED <<dlVars, zipVars, schedVars, stops, routeShort, feed, env,
                   zipHasDates, LRU7, net, prime, pg, res, opens, req, fetches, disk>>

(* Date.now() moves on by RtTickMs *)
RtTick ==
  /\ clock < MaxRtTicks * RtTickMs
  /\ clock' = clock + RtTickMs
  /\ UNCHANGED <<stop_times, calendar_dates, hostOffset, arg, sqliteReady, LRU, q, nCalls,
                 dlVars, zipVars, extVars>>

RtArgs == [stopId : {"A", "B"}, routeRef : {NoRef, <<"8", "3", "A">>}, limit : {0, 1, 3}]

InitRT ==
  /\ feed \in Feeds
  /\ arg \in RtArgs
  /\ sqliteReady \in BOOLEAN
  /\ RT_CACHE = <<>> /\ rt = IdleRt
  /\ stops = StopsTxt /\ routeShort = <<>>
  /\ stop_times = <<>> /\ calendar_dates = <<>> /\ hostOffset = TorontoOffset
  /\ LRU = <<>> /\ clock = 0 /\ q = IdleQ /\ nCalls = 0
  /\ remote = [size |-> 1, ver |-> 1, was |-> 0]
  /\ file = <<>> /\ fileAge = 0 /\ tmp = <<>> /\ pc = "idle" /\ dl = IdleDl
  /\ zip = <<>> /\ zipAge = 0 /\ zipTmp = <<>>
  /\ zc = IdleZc
  /\ disk = IdleDisk
  /\ fetches = IdleFetches
  /\ req = IdleReq
  /\ opens = IdleOpens
  /\ res = IdleRes
  /\ pg = NoPg
  /\ prime = IdlePrime
  /\ net = "up"
  /\ LRU7 = <<>>
  /\ zipHasDates = TRUE
  /\ env = [SQLITE_URL |-> TRUE, GTFS_URL |-> TRUE]

NextRT ==
  \/ nextArrivalsByStop
  \/ RtTick

SpecRT == InitRT /\ [][NextRT]_vars

---------------------------------------------------------------------------
(* Claims about the realtime adapter                                       *)

(* The (entity, stop-time update) pairs of the served message that match   *)
(* the call recorded in rt: same stop id, a finite predicted time (arrival *)
(* if given, else departure) not before the threshold.                     *)
RtThreshold == IF rt.fromEpochSec # NoEpoch THEN rt.fromEpochSec ELSE rt.now \div 1000
RtMatches ==
  { p \in [e : 1..Len(feed), k : 1..2] :
      /\ feed[p.e].tripUpdate
      /\ p.k <= Len(feed[p.e].stopTimeUpdate)
      /\ LET u == feed[p.e].stopTimeUpdate[p.k]
             t == IF u.arrival # NoTime THEN u.arrival ELSE u.departure
         IN  /\ u.stopId = arg.stopId
             /\ t # NoTime
             /\ t >= RtThreshold }
RtOutPairs == { [e |-> rt.out[i].e, k |-> rt.out[i].k] : i \in 1..Len(rt.out) }

(* C14: with no route reference and a limit not below the number of        *)
(* matches, nextArrivalsByStop returns exactly one record for each (trip   *)
(* update, stop-time update) pair whose stop id equals the target stop id  *)
(* and whose predicted time is finite and >= the threshold (fromEpochSec   *)
(* if finite, else the current epoch second), and no other record.         *)
C14_RealtimeMatching ==
  (/\ rt.fn = "nextArrivalsByStop" /\ ~rt.err
   /\ arg.routeRef = NoRef /\ arg.limit >= Cardinality(RtMatches))
  => /\ RtOutPairs = RtMatches
     /\ Len(rt.out) = Cardinality(RtMatches)

(* Two pairs matched and were returned while the message also holds an     *)
(* update for another stop or with an earlier or missing time.             *)
C14_Witness ==
  /\ rt.fn = "nextArrivalsByStop" /\ ~rt.err
  /\ arg.routeRef = NoRef /\ arg.limit >= Cardinality(RtMatches)
  /\ Cardinality(RtMatches) = 2 /\ Len(rt.out) = 2
  /\ \E e \in 1..Len(feed) : \E k \in 1..Len(feed[e].stopTimeUpdate) :
       [e |-> e, k |-> k] \notin RtMatches

(* C16: when the feed fetch times out or returns a non-success status,     *)
(* fetchRT and nextArrivalsByStop fail with an error; no list is returned, *)
(* an expired cached message is not served, and the feed cache is as it    *)
(* was before the call.                                                    *)
C16_RealtimeFailurePropagates ==
  (rt.fn = "nextArrivalsByStop" /\ rt.fetched /\ rt.outcome # "ok")
  => /\ rt.err
     /\ rt.out = <<>>
     /\ RT_CACHE = rt.cacheBefore

(* A fetch timed out while an expired message for the URL was cached.      *)
C16_Witness ==
  /\ rt.fn = "nextArrivalsByStop" /\ rt.fetched /\ rt.outcome = "timeout"
  /\ rtHas(rt.cacheBefore, "trips")
  /\ rtGet(rt.cacheBefore, "trips").msg # <<>>
  /\ rt.err

(* Sanity: a call answered from a fresh cache entry issues no request, and *)
(* the list of a successful call is sorted, capped and marked realtime.    *)
RT_FreshEntryNoFetch ==
  (/\ rt.fn = "nextArrivalsByStop" /\ rtHas(rt.cacheBefore, "trips")
   /\ rt.now - rtGet(rt.cacheBefore, "trips").t < RT_CACHE_TTL_MS)
  => (~rt.fetched /\ ~rt.err)
RT_SortedCappedRealtime ==
  rt.fn = "nextArrivalsByStop"
  => /\ \A i \in 1..(Len(rt.out) - 1) : rt.out[i].t <= rt.out[i + 1].t
     /\ Len(rt.out) <= Max(1, arg.limit)
     /\ \A i \in 1..Len(rt.out) :
          /\ rt.out[i].realtime
          /\ [e |-> rt.out[i].e, k |-> rt.out[i].k] \in RtMatches

---------------------------------------------------------------------------
(* Ordering and cap                                                        *)

(* C15: the list a next-arrivals query returns is sorted ascending by      *)
(* time, has at most max(1, limit) entries, consists of the earliest       *)
(* entries among those that passed the filters, and every static record    *)
(* has realtime = false.                                                   *)
C15_SortedCappedEarliest ==
  (q.fn \in NextArrivalFns /\ ~q.notReady)
  => LET passed == QualifyingRows(Range(q.stopIds))
     IN  /\ SortedByWhen(q.out)
         /\ Len(q.out) <= Max(1, arg.limit)
         /\ \A i \in 1..Len(q.out) :
              /\ ~q.out[i].realtime
              /\ \E j \in passed :
                   /\ stop_times[j].trip_id = q.out[i].tid
                   /\ stop_times[j].stop_id = q.out[i].stop
                   /\ hmsToSec(stop_times[j].departure_time) = q.out[i].sec
         /\ \A j \in passed :
              (\A i \in 1..Len(q.out) : q.out[i].tid # stop_times[j].trip_id)
              => /\ Len(q.out) = Max(1, arg.limit)
                 /\ \A i \in 1..Len(q.out) :
                      q.out[i].sec <= hmsToSec(stop_times[j].departure_time)

(* Sanity: every scan that is not answered from the result cache, and      *)
(* every realtime list, is sorted, capped and holds the earliest entries.  *)
SCHED_FreshScanSortedCappedEarliest == ~q.cached => C15_SortedCappedEarliest
RT_EarliestKept ==
  (rt.fn = "nextArrivalsByStop" /\ ~rt.err /\ arg.routeRef = NoRef)
  => \A p \in RtMatches \ RtOutPairs :
       /\ Len(rt.out) = Max(1, arg.limit)
       /\ \A i \in 1..Len(rt.out) :
            rt.out[i].t <= stuTime(feed[p.e].stopTimeUpdate[p.k])

---------------------------------------------------------------------------
(* Static reads through the archive, the archive fetched on demand         *)

LRU7_MAX == 50              \* part_007: LRU_MAX
windowMinDefault == 1440    \* linesAtStopFromZipStreaming: windowMin = 1440

(* What the server answers to the one fetch of ensureZipLocal: a rejected  *)
(* or non-ok response, or a body that arrives completely or is cut         *)
ZipAnswers ==
  { [ok |-> FALSE, bytes |-> <<>>, cut |-> FALSE] } \cup
  { [ok |-> TRUE, bytes |-> d.bytes, cut |-> d.cut] : d \in Deliveries(ZipBody) }

(* ensureZipLocal of implementation impl, the server answering dv: whether *)
(* it returns a path (ok) and the files it leaves                          *)
ensureZipLocalResult(impl, dv) ==
  LET same == [zip |-> zip, zipAge |-> zipAge, zipTmp |-> zipTmp]
  IN  IF ~env.GTFS_URL THEN [ok |-> FALSE, net |-> 0] @@ same
      ELSE IF IsFresh(zip, zipAge, ZipTtl(impl)) THEN [ok |-> TRUE, net |-> 0] @@ same
      ELSE IF ~dv.ok THEN [ok |-> FALSE, net |-> 1] @@ same
      ELSE IF ZipViaTmp(impl)
        THEN IF dv.cut
               THEN [ok |-> FALSE, net |-> 1, zip |-> zip, zipAge |-> zipAge,
                     zipTmp |-> dv.bytes]
               ELSE [ok |-> TRUE, net |-> 1, zip |-> dv.bytes, zipAge |-> 0,
                     zipTmp |-> <<>>]
      ELSE [ok |-> ~dv.cut, net |-> 1, zip |-> dv.bytes, zipAge |-> 0, zipTmp |-> zipTmp]

(* unzipper.Open.file(zipPath) finds the entries iff the file is the       *)
(* complete archive                                                        *)
archiveOpens(r) == r.ok /\ r.zip = ZipBody

(* part_008, lines 255-311: the scan of linesAtStopFromZipStreaming *)
zipLines(stopIds, windowMin, now) ==
  LET nowLocal == toLocal(now)
      nowDaySec == DaySeconds(nowLocal)
      horizonSec == nowDaySec + windowMin * 60
      activeServices == serviceActiveTodaySets(calendar_dates, nowLocal)
      Wanted(r) == LET depSec == timeToSeconds(r.departure_time)
                   IN  /\ r.stop_id \in Range(stopIds)
                       /\ depSec # NoSec
                       /\ ~(depSec < nowDaySec \/ depSec > horizonSec)
      rows == SelectSeq(stop_times, Wanted)
      wantedTripIds == {rows[i].trip_id : i \in 1..Len(rows)}
      Active(t) == t.trip_id \in wantedTripIds /\ TripIsActive(t, activeServices)
      act == SelectSeq(trips, Active)
      wantedRouteIds == {act[i].route_id : i \in 1..Len(act)}
      Named(r) == r.route_id \in wantedRouteIds /\ r.route_short_name # <<>>
      named == SelectSeq(routes, Named)
      recs == [i \in 1..Len(named) |->
                 [routeShortName |-> named[i].route_short_name,
                  tids |-> {act[j].trip_id : j \in
                              {k \in 1..Len(act) : act[k].route_id = named[i].route_id}}]]
  IN  SortByName(recs)

(* part_007, lines 143-208: the scan of nextArrivalsFromZipStreaming, on   *)
(* the UTC date and UTC time of day of now                                 *)
zipScan007(stopIds, routeRef, limit, now) ==
  LET nowDaySec == UTCDaySeconds(now)
      horizonSec == nowDaySec + horizonMin * 60
      activeServices == serviceActiveTodaySetsUTC(calendar_dates, now)
      wanted == wantedTrips(Len(stop_times), Range(stopIds), nowDaySec, horizonSec, FALSE)
      wantedTripIds == {wanted[i].tid : i \in 1..Len(wanted)}
      tripInfo == {t.trip_id : t \in {u \in Range(trips) :
                     /\ u.trip_id \in wantedTripIds
                     /\ u.route_id # ""
                     /\ TripIsActive(u, activeServices)}}
      Keep(w) == /\ w.tid \in tripInfo
                 /\ MatchesRouteRefExact(
                      routeShortNamesForRouteIds(TripRow(w.tid).route_id), routeRef)
      kept == SelectSeq(wanted, Keep)
      out == [i \in 1..Len(kept) |->
                Arrival(TripRow(kept[i].tid),
                        routeShortNamesForRouteIds(TripRow(kept[i].tid).route_id),
                        secondsToWhen(kept[i].depSec, now), kept[i])]
  IN  slice(SortByWhen(out), limit)

(* part_007, lines 229-261: the scan of linesAtStopFromZipStreaming *)
zipLines007(stopIds, windowMin, now) ==
  LET nowDaySec == UTCDaySeconds(now)
      horizonSec == nowDaySec + windowMin * 60
      activeServices == serviceActiveTodaySetsUTC(calendar_dates, now)
      Wanted(r) == LET depSec == timeToSeconds(r.departure_time)
                   IN  /\ r.stop_id \in Range(stopIds)
                       /\ depSec # NoSec
                       /\ ~(depSec < nowDaySec \/ depSec > horizonSec)
      rows == SelectSeq(stop_times, Wanted)
      wantedTripIds == {rows[i].trip_id : i \in 1..Len(rows)}
      Active(t) == t.trip_id \in wantedTripIds /\ TripIsActive(t, activeServices)
      act == SelectSeq(trips, Active)
      wantedRouteIds == {act[i].route_id : i \in 1..Len(act)}
      Named(r) == r.route_id \in wantedRouteIds /\ r.route_short_name # <<>>
      named == SelectSeq(routes, Named)
      recs == [i \in 1..Len(named) |->
                 [routeShortName |-> named[i].route_short_name,
                  tids |-> {act[j].trip_id : j \in
                              {k \in 1..Len(act) : act[k].route_id = named[i].route_id}}]]
  IN  SortByName(recs)

(* The cache keys: `arr:` / `lines:` with the date, the sorted stop ids    *)
(* and the other arguments; part_007 takes the UTC date                    *)
linesKey(stopIds, windowMin, now) ==
  [date |-> todayKeyLocal(now), stopIds |-> Range(stopIds), windowMin |-> windowMin]
arrKey7(stopIds, routeRef, limit, now) ==
  [date |-> isoDateUTC(now), stopIds |-> Range(stopIds), routeRef |-> routeRef,
   limit |-> limit, horizonMin |-> horizonMin]
linesKey7(stopIds, windowMin, now) ==
  [date |-> isoDateUTC(now), stopIds |-> Range(stopIds), windowMin |-> windowMin]

(* lruGet / lruSet over a given Map (part_007 and part_008 have the same   *)
(* code, each over its own Map)                                            *)
mapAt(map, key) == {i \in 1..Len(map) : map[i].key = key}
mapHit(map, key) == \E i \in mapAt(map, key) : ~(clock - map[i].t > LRU_TTL_MS)
mapData(map, key) == map[CHOOSE i \in mapAt(map, key) : TRUE].data
mapGet(map, key) ==
  LET Other(e) == e.key # key
  IN  IF mapAt(map, key) = {} THEN map
      ELSE IF mapHit(map, key)
        THEN Append(SelectSeq(map, Other), map[CHOOSE i \in mapAt(map, key) : TRUE])
      ELSE SelectSeq(map, Other)
mapSet(map, key, data, max) ==
  LET e == [key |-> key, t |-> clock, data |-> data]
      at == mapAt(map, key)
      m == IF at = {} THEN Append(map, e)
           ELSE [map EXCEPT ![CHOOSE i \in at : TRUE] = e]
  IN  IF Len(m) > max THEN SubSeq(m, Len(m) - max + 1, Len(m)) ELSE m

(* await streamCsv(entryStream, onRow): the promise settles when the       *)
(* parser the stream is piped into ends or fails.  A stand-in              *)
(* {pipe: () => {}} feeds the parser nothing, so the promise stays pending.*)
streamCsvSettles(isRealStream) == isRealStream

(* One static read through an archive backend, as one step: the URL check, *)
(* the result cache, ensureZipLocal, the optional calendar_dates.txt and   *)
(* the scan.  impl is part_008 or part_007, kind is "arr" or "lines".      *)
archiveRead(impl, kind, stopIds, now, dv) ==
  LET map == IF impl = "part_007" THEN LRU7 ELSE LRU
      max == IF impl = "part_007" THEN LRU7_MAX ELSE LRU_MAX
      key == IF impl = "part_007"
               THEN (IF kind = "arr" THEN arrKey7(stopIds, arg.routeRef, arg.limit, now)
                     ELSE linesKey7(stopIds, windowMinDefault, now))
               ELSE (IF kind = "arr" THEN arrKey(stopIds, arg.routeRef, arg.limit, now)
                     ELSE linesKey(stopIds, windowMinDefault, now))
      z == ensureZipLocalResult(impl, dv)
      scan == IF impl = "part_007"
                THEN (IF kind = "arr"
                        THEN zipScan007(stopIds, arg.routeRef, arg.limit, now)
                        ELSE zipLines007(stopIds, windowMinDefault, now))
                ELSE (IF kind = "arr"
                        THEN zipScan(stopIds, arg.routeRef, arg.limit, now)
                        ELSE zipLines(stopIds, windowMinDefault, now))
      idle == [zip |-> zip, zipAge |-> zipAge, zipTmp |-> zipTmp]
      \* calendar_dates.txt: part_008 catches the rejection of openEntry;
      \* part_007 replaces the stream by a stand-in and awaits streamCsv
      datesSettle == IF impl = "part_007" THEN streamCsvSettles(zipHasDates) ELSE TRUE
  IN  IF ~env.GTFS_URL
        THEN [status |-> "threw", out |-> <<>>, cached |-> FALSE, map |-> map,
              artifact |-> FALSE] @@ idle
      ELSE IF stopIds = <<>>
        THEN [status |-> "returned", out |-> <<>>, cached |-> FALSE, map |-> map,
              artifact |-> archiveOpens([ok |-> TRUE, zip |-> zip])] @@ idle
      ELSE IF mapHit(map, key)
        THEN [status |-> "returned", out |-> mapData(map, key), cached |-> TRUE,
              map |-> mapGet(map, key),
              artifact |-> archiveOpens([ok |-> TRUE, zip |-> zip])] @@ idle
      ELSE IF ~archiveOpens(z)
        THEN [status |-> "threw", out |-> <<>>, cached |-> FALSE,
              map |-> mapGet(map, key), artifact |-> FALSE,
              zip |-> z.zip, zipAge |-> z.zipAge, zipTmp |-> z.zipTmp]
      ELSE IF ~datesSettle
        THEN [status |-> "pending", out |-> <<>>, cached |-> FALSE,
              map |-> mapGet(map, key), artifact |-> TRUE,
              zip |-> z.zip, zipAge |-> z.zipAge, zipTmp |-> z.zipTmp]
      ELSE [status |-> "returned", out |-> scan, cached |-> FALSE,
            map |-> mapSet(mapGet(map, key), key, scan, max), artifact |-> TRUE,
            zip |-> z.zip, zipAge |-> z.zipAge, zipTmp |-> z.zipTmp]

ArchiveImpls == {"part_008", "part_007"}

(* part_008 / part_007: nextArrivalsFromZipStreaming({stopIds: [stopId]}) *)
archiveNextArrivals ==
  /\ nCalls < MaxCalls
  /\ \E impl \in ArchiveImpls, now \in Nows, dv \in ZipAnswers :
       \E r \in {archiveRead(impl, "arr", <<arg.stopId>>, now, dv)} :
           /\ q' = [IdleQ EXCEPT !.fn = "nextArrivalsFromZipStreaming", !.impl = impl,
                      !.now = now, !.stopIds = <<arg.stopId>>,
                      !.services = IF impl = "part_007"
                                     THEN serviceActiveTodaySetsUTC(calendar_dates, now)
                                     ELSE serviceActiveTodaySets(calendar_dates, toLocal(now)),
                      !.out = r.out, !.cached = r.cached, !.status = r.status,
                      !.artifact = r.artifact]
           /\ IF impl = "part_007" THEN LRU7' = r.map /\ UNCHANGED LRU
                                   ELSE LRU' = r.map /\ UNCHANGED LRU7
           /\ zip' = r.zip /\ zipAge' = r.zipAge /\ zipTmp' = r.zipTmp
  /\ nCalls' = nCalls + 1
  /\ UNCHANGED <<stop_times, calendar_dates, hostOffset, arg, sqliteReady, clock, zc,
                 dlVars, stops, routeShort, feed, RT_CACHE, rt, env, zipHasDates,
                 net, prime, pg, res, opens, req, fetches, disk>>

(* part_008 / part_007: linesAtStopFromZipStreaming({stopIds: [stopId]}) *)
archiveLines ==
  /\ nCalls < MaxCalls
  /\ \E impl \in ArchiveImpls, now \in Nows, dv \in ZipAnswers :
       \E r \in {archiveRead(impl, "lines", <<arg.stopId>>, now, dv)} :
           /\ q' = [IdleQ EXCEPT !.fn = "linesAtStopFromZipStreaming", !.impl = impl,
                      !.now = now, !.stopIds = <<arg.stopId>>,
                      !.services = IF impl = "part_007"
                                     THEN serviceActiveTodaySetsUTC(calendar_dates, now)
                                     ELSE serviceActiveTodaySets(calendar_dates, toLocal(now)),
                      !.out = r.out, !.cached = r.cached, !.status = r.status,
                      !.artifact = r.artifact]
           /\ IF impl = "part_007" THEN LRU7' = r.map /\ UNCHANGED LRU
                                   ELSE LRU' = r.map /\ UNCHANGED LRU7
           /\ zip' = r.zip /\ zipAge' = r.zipAge /\ zipTmp' = r.zipTmp
  /\ nCalls' = nCalls + 1
  /\ UNCHANGED <<stop_times, calendar_dates, hostOffset, arg, sqliteReady, clock, zc,
                 dlVars, stops, routeShort, feed, RT_CACHE, rt, env, zipHasDates,
                 net, prime, pg, res, opens, req, fetches, disk>>

(* schedule-sqlite.js: expandStopIdsIfStation('ttc', stopId): the snapshot *)
(* if it is ready, else expandStationFromZip, whose openZipEntry calls     *)
(* ensureZipLocal of lib/sqlite.js                                         *)
expandStopIdsIfStation ==
  /\ nCalls < MaxCalls
  /\ \E impl \in {"part_002", "sqlite.js"}, dv \in ZipAnswers :
       LET z == ensureZipLocalResult(impl, dv)
       IN  IF sqliteReady
             THEN /\ q' = [IdleQ EXCEPT !.fn = "expandStopIdsIfStation",
                             !.impl = "schedule-sqlite.js",
                             !.stopIds = expandStationStopIds(arg.stopId)]
                  /\ UNCHANGED <<zip, zipAge, zipTmp>>
             ELSE /\ q' = [IdleQ EXCEPT !.fn = "expandStopIdsIfStation",
                             !.impl = "schedule-sqlite.js", !.notReady = TRUE,
                             !.artifact = archiveOpens(z),
                             !.status = IF archiveOpens(z) THEN "returned" ELSE "threw",
                             !.stopIds = IF archiveOpens(z)
                                           THEN expandStationFromZip(arg.stopId)
                                           ELSE <<>>]
                  /\ zip' = z.zip /\ zipAge' = z.zipAge /\ zipTmp' = z.zipTmp
  /\ nCalls' = nCalls + 1
  /\ UNCHANGED <<stop_times, calendar_dates, hostOffset, arg, sqliteReady, LRU, clock, zc,
                 dlVars, extVars>>

ArchiveStopTimeFiles ==
  { <<>>, <<StopTimeRows[1]>>, <<StopTimeRows[1], StopTimeRows[4]>> }

InitArchive ==
  /\ stop_times \in ArchiveStopTimeFiles
  /\ zipHasDates \in BOOLEAN
  /\ calendar_dates \in IF zipHasDates THEN CalendarDateFiles ELSE {<<>>}
  /\ env \in [SQLITE_URL : {TRUE}, GTFS_URL : BOOLEAN]
  /\ zip \in IF env.GTFS_URL THEN {<<>>, ZipBody} ELSE {<<>>}
  /\ arg \in [stopId : {"S", "A"}, routeRef : {NoRef}, limit : {2}]
  /\ hostOffset = TorontoOffset
  /\ sqliteReady = FALSE /\ LRU = <<>> /\ LRU7 = <<>> /\ clock = 0 /\ q = IdleQ
  /\ nCalls = 0
  /\ remote = [size |-> 1, ver |-> 1, was |-> 0]
  /\ file = <<>> /\ fileAge = 0 /\ tmp = <<>> /\ pc = "idle" /\ dl = IdleDl
  /\ zipAge = 0 /\ zipTmp = <<>>
  /\ zc = IdleZc
  /\ disk = IdleDisk
  /\ fetches = IdleFetches
  /\ req = IdleReq
  /\ opens = IdleOpens
  /\ res = IdleRes
  /\ pg = NoPg
  /\ prime = IdlePrime
  /\ net = "up"
  /\ rt = IdleRt /\ RT_CACHE = <<>> /\ feed = <<>> /\ routeShort = <<>>
  /\ stops = StopsTxt

NextArchive ==
  \/ nextArrivalsFromSchedule
  \/ linesAtStopWindow
  \/ expandStopIdsIfStation
  \/ archiveNextArrivals
  \/ archiveLines

SpecArchive == InitArchive /\ [][NextArchive]_vars

---------------------------------------------------------------------------
(* Claims about reads without a local artifact and about optional tables   *)

StaticReads ==
  { "nextArrivalsFromSchedule", "linesAtStopWindow", "expandStopIdsIfStation",
    "nextArrivalsFromZipStreaming", "linesAtStopFromZipStreaming" }

(* C17: when no local static artifact is available to a static read (the   *)
(* snapshot is not opened; the archive URL is unset or its download did    *)
(* not complete), the read returns an empty list, or the stop id itself    *)
(* for a station expansion, and does not raise an error.                   *)
C17_NotReadyDegradesToEmpty ==
  (q.fn \in StaticReads /\ ~q.artifact)
  => /\ q.status = "returned"
     /\ q.out = <<>>
     /\ q.fn = "expandStopIdsIfStation" => q.stopIds = <<arg.stopId>>

(* C18: when the archive has no calendar_dates.txt entry, the streaming    *)
(* next-arrivals and active-lines queries return, and what they return is  *)
(* computed from the services of calendar.txt alone; they neither fail nor *)
(* stay pending forever.                                                   *)
C18_MissingCalendarDatesTolerated ==
  (/\ q.fn \in {"nextArrivalsFromZipStreaming", "linesAtStopFromZipStreaming"}
   /\ q.artifact /\ ~q.cached /\ ~zipHasDates)
  => /\ q.status = "returned"
     /\ q.fn = "nextArrivalsFromZipStreaming"
        => \A i \in 1..Len(q.out) :
             TripRow(q.out[i].tid).service_id \in
               InCalendar(isoDate(toLocal(q.now)), getDay(toLocal(q.now)))

(* Sanity: the snapshot reads return [] while the snapshot is not ready;   *)
(* part_008 tolerates the missing table; with the archive at hand no read  *)
(* raises.                                                                 *)
ARCH_SnapshotReadsDegrade ==
  (q.fn \in {"nextArrivalsFromSchedule", "linesAtStopWindow"} /\ ~q.artifact)
  => (q.status = "returned" /\ q.out = <<>>)
ARCH_Part008ToleratesMissingDates ==
  q.impl = "part_008" => C18_MissingCalendarDatesTolerated
ARCH_AvailableArchiveNeverThrows ==
  (q.fn \in StaticReads /\ q.artifact) => q.status # "threw"

---------------------------------------------------------------------------
(* Priming: primeSQLite and openTtcSqlite (part_002, lib/sqlite.js)        *)

SQLITE_RETRY_DELAY_MS == 60000
MaxPrimeTries == 3          \* prime.tries counts the tries up to this number
NetStates == {"up", "down", "garbage"}
PrimeImpls == {"part_002", "sqlite.js"}

(* openTtcSqlite with DB = null: how ensureSqliteLocal and new Database    *)
(* end for the given implementation in the present environment.  Only      *)
(* part_002 downloads with retries.                                        *)
openOutcomes(impl) ==
  IF ~env.SQLITE_URL THEN {"unset URL"}
  ELSE IF net = "down"
    THEN IF impl = "part_002" THEN {"network failure", "exhausted retries"}
         ELSE {"network failure"}
  ELSE IF net = "garbage" THEN {"unreadable file"}
  ELSE {"ok"}

(* What the caller of primeSQLite gets when an open has failed: the catch  *)
(* of the loop (part_002:175) or of primeSQLite (sqlite.js:69) swallows    *)
(* the error.  primeRethrows is primeSQLite without that catch.            *)
primeRethrows(outcome) == IF outcome = "ok" THEN "returned" ELSE "rejected"
primeCatches(outcome) == "returned"

(* After a failed try: part_002 waits SQLITE_RETRY_DELAY_MS and tries      *)
(* again, lib/sqlite.js has no loop.                                       *)
afterFailure(impl) == IF impl = "part_002" THEN "waiting" ELSE "done"

(* primeSQLite(): part_002 starts loop() and returns; lib/sqlite.js awaits *)
(* openTtcSqlite inside its try                                            *)
primeSQLiteCall ==
  /\ prime.pc = "idle"
  /\ \E impl \in PrimeImpls :
       prime' = [prime EXCEPT !.impl = impl, !.pc = "opening",
                   !.caller = IF impl = "part_002" THEN "returned" ELSE "awaiting"]
  /\ UNCHANGED <<dlVars, zipVars, schedVars, stops, routeShort, feed, RT_CACHE, rt, env,
                 zipHasDates, LRU7, net, pg, res, opens, req, fetches, disk>>

(* await openTtcSqlite() settles *)
primeOpenSettles ==
  /\ prime.pc = "opening"
  /\ \E outcome \in openOutcomes(prime.impl) :
       /\ prime' = [prime EXCEPT
                      !.pc = IF outcome = "ok" \/ sqliteReady THEN "done"
                             ELSE afterFailure(prime.impl),
                      !.last = IF sqliteReady THEN "ok" ELSE outcome,
                      !.tries = Min(prime.tries + 1, MaxPrimeTries),
                      !.wait = IF outcome = "ok" \/ sqliteReady \/ prime.impl # "part_002"
                                 THEN prime.wait ELSE SQLITE_RETRY_DELAY_MS,
                      !.caller = IF prime.caller = "awaiting"
                                   THEN primeCatches(outcome) ELSE prime.caller]
       /\ sqliteReady' = (sqliteReady \/ outcome = "ok")
       /\ file' = IF sqliteReady \/ outcome \notin {"ok", "unreadable file"} THEN file
                  ELSE RemoteBody(1)
       /\ fileAge' = IF sqliteReady \/ outcome \notin {"ok", "unreadable file"}
                       THEN fileAge ELSE 0
  /\ UNCHANGED <<remote, tmp, pc, dl, zipVars, stop_times, calendar_dates, hostOffset,
                 arg, LRU, clock, q, nCalls, stops, routeShort, feed, RT_CACHE, rt, env,
                 zipHasDates, LRU7, net, pg, res, opens, req, fetches, disk>>

(* setTimeout(r, SQLITE_RETRY_DELAY_MS) fires: the loop tries again *)
primeRetryTimer ==
  /\ prime.pc = "waiting"
  /\ prime' = [prime EXCEPT !.pc = "opening"]
  /\ UNCHANGED <<dlVars, zipVars, schedVars, stops, routeShort, feed, RT_CACHE, rt, env,
                 zipHasDates, LRU7, net, pg, res, opens, req, fetches, disk>>

(* adapters/ttc.js, lines 50-53: a realtime request with matching rows     *)
(* calls openTtcSqlite() itself, inside try/catch, whether or not the      *)
(* snapshot is ready                                                       *)
adapterOpenTtcSqlite ==
  /\ \E outcome \in openOutcomes("sqlite.js") :
       /\ sqliteReady' = (sqliteReady \/ outcome = "ok")
       /\ file' = IF sqliteReady \/ outcome \notin {"ok", "unreadable file"} THEN file
                  ELSE RemoteBody(1)
       /\ fileAge' = IF sqliteReady \/ outcome \notin {"ok", "unreadable file"}
                       THEN fileAge ELSE 0
  /\ UNCHANGED <<remote, tmp, pc, dl, zipVars, stop_times, calendar_dates, hostOffset,
                 arg, LRU, clock, q, nCalls, extVars>>

(* The server or the network changes *)
NetChange ==
  /\ \E n \in NetStates \ {net} : net' = n
  /\ UNCHANGED <<dlVars, zipVars, schedVars, stops, routeShort, feed, RT_CACHE, rt, env,
                 zipHasDates, LRU7, prime, pg, res, opens, req, fetches, disk>>

InitPrime ==
  /\ env \in [SQLITE_URL : BOOLEAN, GTFS_URL : {TRUE}]
  /\ net \in NetStates
  /\ prime = IdlePrime
  /\ stop_times = <<StopTimeRows[1]>>
  /\ calendar_dates = <<>>
  /\ hostOffset = TorontoOffset
  /\ arg = [stopId |-> "A", routeRef |-> NoRef, limit |-> 1]
  /\ sqliteReady = FALSE /\ LRU = <<>> /\ LRU7 = <<>> /\ clock = 0 /\ q = IdleQ
  /\ nCalls = 0
  /\ remote = [size |-> 1, ver |-> 1, was |-> 0]
  /\ file = <<>> /\ fileAge = 0 /\ tmp = <<>> /\ pc = "idle" /\ dl = IdleDl
  /\ zip = <<>> /\ zipAge = 0 /\ zipTmp = <<>>
  /\ zc = IdleZc
  /\ disk = IdleDisk
  /\ fetches = IdleFetches
  /\ req = IdleReq
  /\ opens = IdleOpens
  /\ res = IdleRes
  /\ pg = NoPg
  /\ zipHasDates = TRUE
  /\ rt = IdleRt /\ RT_CACHE = <<>> /\ feed = <<>> /\ routeShort = <<>>
  /\ stops = StopsTxt

NextPrime ==
  \/ primeSQLiteCall
  \/ primeOpenSettles
  \/ primeRetryTimer
  \/ NetChange
  \/ adapterOpenTtcSqlite
  \/ nextArrivalsFromSchedule

SpecPrime == InitPrime /\ [][NextPrime]_vars

(* The event loop runs every ready continuation and every due timer;      *)
(* nothing obliges a request to arrive                                     *)
SpecPrimeLive ==
  /\ InitPrime /\ [][NextPrime]_vars
  /\ WF_vars(primeSQLiteCall)
  /\ WF_vars(primeOpenSettles)
  /\ WF_vars(primeRetryTimer)

---------------------------------------------------------------------------
(* Claims about priming                                                    *)

OpenFailures == {"unset URL", "network failure", "exhausted retries", "unreadable file"}

CanOpen == env.SQLITE_URL /\ net = "up"

(* C20: once primeSQLite has been started it tries again after every       *)
(* failure, so if from some point on the download and open can succeed,    *)
(* isSqliteReady() eventually becomes true.                                *)
C20_PrimingLiveness == (<>[]CanOpen) => <>sqliteReady

(* Sanity: the loop of part_002 does get there, it waits the fixed delay   *)
(* after every failed try, and a finished failed priming is lib/sqlite.js. *)
PRIME_LoopEventuallyReady ==
  (<>[]CanOpen) => <>(sqliteReady \/ prime.impl = "sqlite.js")
PRIME_FixedWait ==
  prime.pc = "waiting" => (prime.impl = "part_002" /\ prime.wait = SQLITE_RETRY_DELAY_MS)
PRIME_GivesUpOnlyInSqliteJs ==
  (prime.pc = "done" /\ ~sqliteReady) => prime.impl = "sqlite.js"

---------------------------------------------------------------------------
(* Configuration: the snapshot and the archive with their URLs set or not  *)

(* openTtcSqlite after `await ensureSqliteLocal()`: an error passes to the *)
(* caller; else new Database(file, {readonly, fileMustExist}) opens the    *)
(* file and the flag is set.  A file that is not the remote snapshot may   *)
(* or may not open.                                                        *)
openTtcSqliteSettles ==
  /\ pc = "returned"
  /\ dl.op = "sqlite"
  /\ \E canOpen \in IF file = RemoteBody(0) THEN {TRUE} ELSE BOOLEAN :
       sqliteReady' = (sqliteReady \/ (dl.ret = "ok" /\ canOpen))
  /\ pc' = "idle"
  /\ dl' = IdleDl
  /\ UNCHANGED <<remote, file, fileAge, tmp, zipVars, stop_times, calendar_dates,
                 hostOffset, arg, LRU, clock, q, nCalls, extVars>>

CfgRemoteSize == 2

InitCfg ==
  /\ env \in [SQLITE_URL : BOOLEAN, GTFS_URL : BOOLEAN]
  /\ remote = [size |-> CfgRemoteSize, ver |-> 1, was |-> 0]
  /\ file = <<>> /\ fileAge = 0 /\ tmp = <<>> /\ pc = "idle" /\ dl = IdleDl
  /\ zip = <<>> /\ zipAge = 0 /\ zipTmp = <<>>
  /\ zc = IdleZc
  /\ disk = IdleDisk
  /\ fetches = IdleFetches
  /\ req = IdleReq
  /\ opens = IdleOpens
  /\ res = IdleRes
  /\ pg = NoPg
  /\ prime = IdlePrime /\ net = "up" /\ LRU7 = <<>> /\ zipHasDates = TRUE
  /\ rt = IdleRt /\ RT_CACHE = <<>> /\ feed = <<>> /\ routeShort = <<>>
  /\ stops = StopsTxt
  /\ stop_times = <<>> /\ calendar_dates = <<>> /\ hostOffset = TorontoOffset
  /\ arg = [stopId |-> "A", limit |-> 1, routeRef |-> NoRef]
  /\ sqliteReady = FALSE /\ LRU = <<>> /\ clock = 0 /\ q = IdleQ /\ nCalls = 0

NextCfg ==
  \/ ensureSqliteLocal
  \/ httpHeadSize
  \/ downloadAttemptFails
  \/ downloadAttempt
  \/ Return
  \/ openTtcSqliteSettles
  \/ ensureZipLocal
  \/ ZipReturn

SpecCfg == InitCfg /\ [][NextCfg]_vars

(* C21: with the snapshot URL (resp. the archive URL) empty,               *)
(* ensureSqliteLocal (resp. ensureZipLocal) fails at once with the         *)
(* configuration error: no request, no file written, DB handle and         *)
(* readiness flag as before; the other artifact is not affected.           *)
C21_UnsetUrlFailsImmediately ==
  [][/\ (pc = "idle" /\ pc' # "idle" /\ ~env.SQLITE_URL) =>
          /\ pc' = "returned" /\ dl'.ret = "config"
          /\ dl'.net = 0 /\ dl'.nReq = 0
          /\ UNCHANGED <<file, fileAge, tmp, sqliteReady, zipVars>>
     /\ (pc = "returned" /\ dl.ret = "config") =>
          UNCHANGED <<file, fileAge, tmp, sqliteReady>>
     /\ (zc.ret = "none" /\ zc'.ret # "none" /\ ~env.GTFS_URL) =>
          /\ zc'.ret = "config" /\ zc'.net = 0
          /\ UNCHANGED <<zip, zipAge, zipTmp, sqliteReady, dlVars>>
     /\ (zc.ret = "config" /\ env.SQLITE_URL /\ pc = "idle" /\ pc' # "idle") =>
          dl'.ret # "config"
    ]_vars

(* The snapshot URL is unset and openTtcSqlite has failed on it, while the *)
(* archive, whose URL is set, has been fetched.                            *)
C21_Witness ==
  /\ ~env.SQLITE_URL /\ env.GTFS_URL
  /\ pc = "returned" /\ dl.ret = "config"
  /\ zip = ZipBody
  /\ ~sqliteReady

(* Sanity: a configuration error is returned only for an unset URL *)
CFG_ConfigErrorOnlyWhenUnset ==
  /\ (dl.ret = "config" => ~env.SQLITE_URL)
  /\ (zc.ret = "config" => ~env.GTFS_URL)
  /\ (sqliteReady => env.SQLITE_URL)

----------------------------------------------------------------------

----------------------------------------------------------------------

----------------------------------------------------------------------

----------------------------------------------------------------------

----------------------------------------------------------------------

---------------------------------------------------------------------------
(* Stop resolver (stopResolver.js: part_004 and part_003)                  *)
(*                                                                         *)
(* A string is the sequence of its characters.                             *)

UpperCase == <<"A", "B", "C", "D", "E", "F", "G", "H", "I", "J", "K", "L", "M", "N", "O", "P", "Q", "R", "S", "T", "U", "V", "W", "X", "Y", "Z">>
LowerCase == <<"a", "b", "c", "d", "e", "f", "g", "h", "i", "j", "k", "l", "m", "n", "o", "p", "q", "r", "s", "t", "u", "v", "w", "x", "y", "z">>
Digits == {"0", "1", "2", "3", "4", "5", "6", "7", "8", "9"}
Dashes == {"-", "ndash", "mdash"}      \* hyphen, en dash (U+2013), em dash (U+2014)
NoId == <<>>                            \* null

isUpper(c) == \E i \in 1..26 : UpperCase[i] = c
lowerChar(c) == IF isUpper(c) THEN LowerCase[CHOOSE i \in 1..26 : UpperCase[i] = c] ELSE c
lowerCase(s) == [i \in 1..Len(s) |-> lowerChar(s[i])]
isLetter(c) == isUpper(c) \/ \E i \in 1..26 : LowerCase[i] = c
isWordChar(c) == isLetter(c) \/ c \in Digits \/ c = "_"         \* \w
isSpace(c) == c = " "                                           \* \s

(* String.prototype.trim *)
RECURSIVE trimStart(_)
trimStart(s) == IF s # <<>> /\ isSpace(Head(s)) THEN trimStart(Tail(s)) ELSE s
RECURSIVE trimEnd(_)
trimEnd(s) ==
  IF s # <<>> /\ isSpace(s[Len(s)]) THEN trimEnd(SubSeq(s, 1, Len(s) - 1)) ELSE s
trim(s) == trimEnd(trimStart(s))

(* /^\d{3,6}$/ and /^[A-Za-z0-9_-]+$/ *)
isShortNumeric(s) == Len(s) \in 3..6 /\ \A i \in 1..Len(s) : s[i] \in Digits
looksLikeId(s) == s # <<>> /\ \A i \in 1..Len(s) : isWordChar(s[i]) \/ s[i] = "-"

(* s.includes(t) *)
occursAt(s, t, i) == i + Len(t) - 1 <= Len(s) /\ SubSeq(s, i, i + Len(t) - 1) = t
includes(s, t) == \E i \in 1..(Len(s) + 1) : occursAt(s, t, i)

(* /\bw\b/ on s: an occurrence of w with no word character on either side *)
wordAt(s, w, i) ==
  /\ occursAt(s, w, i)
  /\ (i = 1 \/ ~isWordChar(s[i - 1]))
  /\ (i + Len(w) > Len(s) \/ ~isWordChar(s[i + Len(w)]))
hasWord(s, w) == \E i \in 1..Len(s) : wordAt(s, w, i)

(* name ILIKE '%q%': qry somewhere in name, letters compared without case,   *)
(* an underscore of qry standing for any one character                       *)
ilikeAt(name, qry, i) ==
  /\ i + Len(qry) - 1 <= Len(name)
  /\ \A k \in 1..Len(qry) : qry[k] = "_" \/ lowerChar(qry[k]) = lowerChar(name[i + k - 1])
ilikeContains(name, qry) == \E i \in 1..(Len(name) + 1) : ilikeAt(name, qry, i)

(* .replace(/[<en dash><em dash>-]/g, ' ') *)
dashesToSpaces(s) == [i \in 1..Len(s) |-> IF s[i] \in Dashes THEN " " ELSE s[i]]

(* .replace(/\bstn\b/g, 'station') *)
STN == <<"s", "t", "n">>
STATION == <<"s", "t", "a", "t", "i", "o", "n">>
PLATFORM == <<"p", "l", "a", "t", "f", "o", "r", "m">>
RECURSIVE replaceStnFrom(_, _)
replaceStnFrom(s, i) ==
  IF i > Len(s) THEN <<>>
  ELSE IF wordAt(s, STN, i) THEN STATION \o replaceStnFrom(s, i + 3)
  ELSE <<s[i]>> \o replaceStnFrom(s, i + 1)
replaceStn(s) == replaceStnFrom(s, 1)

(* .split(/\s+/).filter(Boolean) *)
RECURSIVE splitFrom(_, _, _)
splitFrom(s, i, cur) ==
  IF i > Len(s) THEN (IF cur = <<>> THEN <<>> ELSE <<cur>>)
  ELSE IF isSpace(s[i])
    THEN (IF cur = <<>> THEN <<>> ELSE <<cur>>) \o splitFrom(s, i + 1, <<>>)
  ELSE splitFrom(s, i + 1, Append(cur, s[i]))
split(s) == splitFrom(s, 1, <<>>)

(* part_004, lines 55-60: the tokens of the query *)
tokensOf(qry) == split(replaceStn(dashesToSpaces(lowerCase(qry))))

(* part_004, lines 62-65: every token is somewhere in the lower-cased name *)
everyTokenIn(name, tokens) ==
  \A k \in 1..Len(tokens) : includes(lowerCase(name), tokens[k])

(* part_004, line 67: /\bstation\b/i.test(q), on the query as typed *)
wantsStationish(qry) == hasWord(lowerCase(qry), STATION)

(* part_004, lines 71-74: with "station" asked for and platform rows       *)
(* among the filtered ones, only those are kept                            *)
isPlatform(r) == hasWord(lowerCase(r.name), PLATFORM)
platformsOnly(qry, filtered) ==
  IF wantsStationish(qry) /\ SelectSeq(filtered, isPlatform) # <<>>
    THEN SelectSeq(filtered, isPlatform) ELSE filtered

(* stationScore and defaultScore; defaultScore is counted in fortieths     *)
Bounds4 == {<<"e", "a", "s", "t", "b", "o", "u", "n", "d">>, <<"w", "e", "s", "t", "b", "o", "u", "n", "d">>, <<"n", "o", "r", "t", "h", "b", "o", "u", "n", "d">>, <<"s", "o", "u", "t", "h", "b", "o", "u", "n", "d">>}
stationScore(r) ==
  LET name == lowerCase(r.name)
  IN  40 * ( (IF hasWord(name, PLATFORM) THEN 10 ELSE 0)
           + (IF \E b \in Bounds4 : hasWord(name, b) THEN 3 ELSE 0)
           + (IF r.location_type # 1 THEN 1 ELSE 0) )
Abs(x) == IF x < 0 THEN 0 - x ELSE x
defaultScore(r, qry) ==
  (IF startsWith(lowerCase(r.name), lowerCase(qry)) THEN 80 ELSE 0)
  + Max(0, 40 - Abs(Len(r.name) - Len(qry)))

(* String(a.name).localeCompare(String(b.name)): blank and punctuation     *)
(* before digits before letters, a letter before its capital               *)
Collation ==
  <<" ", "-", "ndash", "mdash", ".", "_", "0", "1", "2", "3", "4", "5", "6", "7", "8", "9", "a", "A", "b", "B", "c", "C", "d", "D", "e", "E", "f", "F", "g", "G", "h", "H", "i", "I", "j", "J", "k", "K", "l", "L", "m", "M", "n", "N", "o", "O", "p", "P", "q", "Q", "r", "R", "s", "S", "t", "T", "u", "U", "v", "V", "w", "W", "x", "X", "y", "Y", "z", "Z">>
collationRank(c) ==
  IF \E i \in 1..Len(Collation) : Collation[i] = c
    THEN CHOOSE i \in 1..Len(Collation) : Collation[i] = c ELSE 0
RECURSIVE compareNames(_, _)
compareNames(a, b) ==
  IF a = <<>> THEN (IF b = <<>> THEN 0 ELSE 0 - 1)
  ELSE IF b = <<>> THEN 1
  ELSE IF collationRank(Head(a)) < collationRank(Head(b)) THEN 0 - 1
  ELSE IF collationRank(Head(a)) > collationRank(Head(b)) THEN 1
  ELSE compareNames(Tail(a), Tail(b))

(* .sort((a, b) => b._score - a._score || a.name.localeCompare(b.name)) *)
scoredBefore(a, b) ==
  a.score > b.score \/ (a.score = b.score /\ compareNames(a.name, b.name) <= 0)
RECURSIVE InsertByScore(_, _)
InsertByScore(sorted, r) ==
  IF sorted = <<>> THEN <<r>>
  ELSE IF scoredBefore(Head(sorted), r)
         THEN <<Head(sorted)>> \o InsertByScore(Tail(sorted), r)
         ELSE <<r>> \o sorted
RECURSIVE SortByScore(_)
SortByScore(s) ==
  IF s = <<>> THEN <<>>
  ELSE InsertByScore(SortByScore(SubSeq(s, 1, Len(s) - 1)), s[Len(s)])

(* ORDER BY name ASC of part_003 *)
RECURSIVE InsertByStopName(_, _)
InsertByStopName(sorted, r) ==
  IF sorted = <<>> THEN <<r>>
  ELSE IF compareNames(Head(sorted).name, r.name) <= 0
         THEN <<Head(sorted)>> \o InsertByStopName(Tail(sorted), r)
         ELSE <<r>> \o sorted
RECURSIVE SortByStopName(_)
SortByStopName(s) ==
  IF s = <<>> THEN <<>>
  ELSE InsertByStopName(SortByStopName(SubSeq(s, 1, Len(s) - 1)), s[Len(s)])

idName(r) == [id |-> r.id, name |-> r.name]
idNames(rows) == [i \in 1..Len(rows) |-> idName(rows[i])]

(* The stops of the external store: two agencies; the stop of the other    *)
(* agency has a stop_code of this one.  Rows are written in name order.    *)
BloorStops ==
  << [agency |-> "go", id |-> <<"G", "1">>, stop_code |-> <<"1", "2", "3", "4">>,
      name |-> <<"B", "l", "o", "o", "r", " ", "G", "O">>, location_type |-> 0],
     [agency |-> "ttc", id |-> <<"S", "1">>, stop_code |-> <<>>,
      name |-> <<"B", "l", "o", "o", "r", " ", "S", "t", "a", "t", "i", "o", "n">>, location_type |-> 1],
     [agency |-> "ttc", id |-> <<"P", "1">>, stop_code |-> <<"1", "2", "3", "4">>,
      name |-> <<"B", "l", "o", "o", "r", " ", "S", "t", "a", "t", "i", "o", "n", " ", "-", " ", "P", "l", "a", "t", "f", "o", "r", "m", " ", "1">>, location_type |-> 0],
     [agency |-> "ttc", id |-> <<"P", "2">>, stop_code |-> <<"1", "2", "3", "5">>,
      name |-> <<"B", "l", "o", "o", "r", " ", "S", "t", "a", "t", "i", "o", "n", " ", "-", " ", "P", "l", "a", "t", "f", "o", "r", "m", " ", "2">>, location_type |-> 0] >>
MainStops ==
  << [agency |-> "ttc", id |-> <<"M", "1">>, stop_code |-> <<>>,
      name |-> <<"M", "a", "i", "n", " ", "S", "t", "n", " ", "S", "t", "a", "t", "i", "o", "n">>, location_type |-> 1],
     [agency |-> "ttc", id |-> <<"M", "2">>, stop_code |-> <<"7", "7", "7">>,
      name |-> <<"M", "a", "i", "n", " ", "S", "t", "n", " ", "S", "t", "a", "t", "i", "o", "n", " ", "P", "l", "a", "t", "f", "o", "r", "m">>, location_type |-> 0] >>
StopTables == {<<>>, BloorStops, MainStops}

(* The stop_name column of the snapshot's stops table, used by part_003 *)
sqliteStopNames == BloorStops

(* What callers pass as stopRef / nameLike *)
StopRefs ==
  { <<>>, <<"1", "2", "3", "4">>, <<" ", "1", "2", "3", "5", " ">>, <<"9", "9", "9">>, <<"1", "2">>, <<"1", "2", "3", "4", "5", "6", "7">>,
    <<"P", "1">>, <<"a", "_", "B", "-", "1">>, <<"B", "l", "o", "o", "r">>, <<"b", "l", "o", "o", "r", " ", "s", "t", "n">>, <<"B", "l", "o", "o", "r", " ", "S", "t", "a", "t", "i", "o", "n">>,
    <<"s", "t", "a", "t", "i", "o", "n", " ", "b", "l", "o", "o", "r">>, <<"m", "a", "i", "n", " ", "s", "t", "n">>, <<"B", "l", "o", "o", "r", "ndash", "S", "t", "a", "t", "i", "o", "n">> }

(* part_004, lines 47-53: the rows of the agency whose name ILIKE %q% *)
pgNameRows(agency, qry) ==
  LET Match(r) == r.agency = agency /\ ilikeContains(r.name, qry)
  IN  SelectSeq(pg.stops, Match)

(* part_004, lines 16-21: SELECT id FROM stops WHERE agency=$1 AND         *)
(* stop_code=$2 LIMIT 1                                                    *)
pgCodeRows(agency, s) ==
  LET Match(r) == r.agency = agency /\ r.stop_code = s
  IN  SelectSeq(pg.stops, Match)

(* part_004: findCandidateStopIds(agencyKey, nameLike, max) *)
findCandidateStopIds004(agency, nameLike, max, queryFails) ==
  LET qry == trim(nameLike)
      rows == pgNameRows(agency, qry)
      tokens == tokensOf(qry)
      Keep(r) == everyTokenIn(r.name, tokens)
      filtered == SelectSeq(rows, Keep)
      poolRows == platformsOnly(qry, filtered)
      scored == [i \in 1..Len(poolRows) |->
                   [id |-> poolRows[i].id, name |-> poolRows[i].name,
                    score |-> IF wantsStationish(qry) THEN stationScore(poolRows[i])
                              ELSE defaultScore(poolRows[i], qry)]]
  IN  IF qry = <<>> \/ ~pg.pool
        THEN [status |-> "returned", out |-> <<>>, filtered |-> <<>>,
              searched |-> FALSE, opened |-> FALSE]
      ELSE IF queryFails
        THEN [status |-> "threw", out |-> <<>>, filtered |-> <<>>,
              searched |-> TRUE, opened |-> FALSE]
      ELSE [status |-> "returned", out |-> idNames(slice(SortByScore(scored), max)),
            filtered |-> idNames(filtered), searched |-> TRUE, opened |-> FALSE]

(* part_003, lines 38-55: lower(stop_name) LIKE %t1%t2%..., stations first *)
RECURSIVE likeTokensFrom(_, _, _)
likeTokensFrom(name, tokens, i) ==
  IF tokens = <<>> THEN TRUE
  ELSE \E j \in i..(Len(name) + 1) :
         /\ ilikeAt(name, Head(tokens), j)
         /\ likeTokensFrom(name, Tail(tokens), j + Len(Head(tokens)))
sqliteNameRows(qry) ==
  LET tokens == split(lowerCase(qry))
      Match(r) == r.agency = "ttc" /\ likeTokensFrom(lowerCase(r.name), tokens, 1)
      rows == SelectSeq(sqliteStopNames, Match)
      StationRow(r) == r.location_type = 1
      OtherRow(r) == r.location_type # 1
  IN  SortByStopName(SelectSeq(rows, StationRow)) \o SortByStopName(SelectSeq(rows, OtherRow))

(* part_003: findCandidateStopIds(agencyKey, stopRef, {limit}) *)
findCandidateStopIds003(agency, stopRef, limit, queryFails) ==
  LET qry == trim(stopRef)
      rows == slice(SortByStopName(pgNameRows(agency, qry)), Max(1, limit))
      lite == slice(sqliteNameRows(qry), Max(1, limit))
  IN  IF stopRef = <<>>
        THEN [status |-> "returned", out |-> <<>>, filtered |-> <<>>,
              searched |-> FALSE, opened |-> FALSE]
      ELSE IF looksLikeId(qry)
        THEN [status |-> "returned", out |-> <<[id |-> qry, name |-> qry]>>,
              filtered |-> <<>>, searched |-> FALSE, opened |-> FALSE]
      ELSE IF pg.pool /\ queryFails
        THEN [status |-> "threw", out |-> <<>>, filtered |-> <<>>,
              searched |-> TRUE, opened |-> FALSE]
      ELSE IF pg.pool /\ rows # <<>>
        THEN [status |-> "returned", out |-> idNames(rows),
              filtered |-> idNames(pgNameRows(agency, qry)), searched |-> TRUE,
              opened |-> FALSE]
      ELSE IF agency = "ttc" /\ sqliteReady
        THEN [status |-> "returned", out |-> idNames(lite),
              filtered |-> idNames(sqliteNameRows(qry)), searched |-> TRUE,
              opened |-> TRUE]
      ELSE [status |-> "returned", out |-> <<>>, filtered |-> <<>>,
            searched |-> pg.pool, opened |-> FALSE]

firstId(cands) == IF cands = <<>> THEN NoId ELSE cands[1].id

(* part_004: getStopId(agencyKey, stopRef).  codeRow is the row LIMIT 1    *)
(* hands back, 0 if there is none.                                         *)
getStopId004(agency, stopRef, queryFails, codeRow) ==
  LET s == trim(stopRef)
      c == findCandidateStopIds004(agency, s, 8, queryFails)
      none == [status |-> "returned", id |-> NoId, out |-> <<>>, searched |-> FALSE,
               opened |-> FALSE]
  IN  IF s = <<>> \/ ~pg.pool THEN none
      ELSE IF isShortNumeric(s)
        THEN [none EXCEPT !.id = IF ~queryFails /\ codeRow # 0
                                   THEN pgCodeRows(agency, s)[codeRow].id ELSE s]
      ELSE IF looksLikeId(s) THEN [none EXCEPT !.id = s]
      ELSE [status |-> c.status, id |-> firstId(c.out), out |-> c.out,
            searched |-> c.searched, opened |-> FALSE]

(* part_003: getStopId(agencyKey, stopRef) *)
getStopId003(agency, stopRef, queryFails) ==
  LET c == findCandidateStopIds003(agency, stopRef, 1, queryFails)
  IN  [status |-> c.status, id |-> firstId(c.out), out |-> c.out,
       searched |-> c.searched, opened |-> c.opened]

ResolverImpls == {"part_004", "part_003"}
MaxCands == 12

(* A request resolves a stop reference *)
getStopId ==
  /\ \E impl \in ResolverImpls, stopRef \in StopRefs, queryFails \in BOOLEAN :
       \E codeRow \in IF pgCodeRows("ttc", trim(stopRef)) = <<>> THEN {0}
                      ELSE 1..Len(pgCodeRows("ttc", trim(stopRef))) :
         \E r \in {IF impl = "part_004"
                     THEN getStopId004("ttc", stopRef, queryFails, codeRow)
                     ELSE getStopId003("ttc", stopRef, queryFails)} :
           res' = [fn |-> "getStopId", impl |-> impl, stopRef |-> stopRef,
                   queryFails |-> queryFails, status |-> r.status, id |-> r.id,
                   out |-> r.out, filtered |-> <<>>, searched |-> r.searched,
                   opened |-> r.opened]
  /\ UNCHANGED <<dlVars, zipVars, schedVars, stops, routeShort, feed, RT_CACHE, rt, env,
                 zipHasDates, LRU7, net, prime, pg, opens, req, fetches, disk>>

(* A request lists the candidates for a name *)
findCandidateStopIds ==
  /\ \E impl \in ResolverImpls, stopRef \in StopRefs, queryFails \in BOOLEAN :
       \E r \in {IF impl = "part_004"
                   THEN findCandidateStopIds004("ttc", stopRef, MaxCands, queryFails)
                   ELSE findCandidateStopIds003("ttc", stopRef, MaxCands, queryFails)} :
         res' = [fn |-> "findCandidateStopIds", impl |-> impl, stopRef |-> stopRef,
                 queryFails |-> queryFails, status |-> r.status, id |-> NoId,
                 out |-> r.out, filtered |-> r.filtered, searched |-> r.searched,
                 opened |-> r.opened]
  /\ UNCHANGED <<dlVars, zipVars, schedVars, stops, routeShort, feed, RT_CACHE, rt, env,
                 zipHasDates, LRU7, net, prime, pg, opens, req, fetches, disk>>

InitResolver ==
  /\ pg \in {NoPg} \cup [pool : {TRUE}, stops : StopTables]
  /\ sqliteReady \in BOOLEAN
  /\ res = IdleRes
  /\ env = [SQLITE_URL |-> TRUE, GTFS_URL |-> TRUE]
  /\ remote = [size |-> 1, ver |-> 1, was |-> 0]
  /\ file = <<>> /\ fileAge = 0 /\ tmp = <<>> /\ pc = "idle" /\ dl = IdleDl
  /\ zip = <<>> /\ zipAge = 0 /\ zipTmp = <<>> /\ zc = IdleZc
  /\ disk = IdleDisk
  /\ fetches = IdleFetches
  /\ req = IdleReq
  /\ opens = IdleOpens
  /\ stop_times = <<>> /\ calendar_dates = <<>> /\ hostOffset = TorontoOffset
  /\ arg = [stopId |-> "A", limit |-> 1, routeRef |-> NoRef]
  /\ LRU = <<>> /\ clock = 0 /\ q = IdleQ /\ nCalls = 0
  /\ prime = IdlePrime /\ net = "up" /\ LRU7 = <<>> /\ zipHasDates = TRUE
  /\ rt = IdleRt /\ RT_CACHE = <<>> /\ feed = <<>> /\ routeShort = <<>>
  /\ stops = StopsTxt

NextResolver ==
  \/ getStopId
  \/ findCandidateStopIds

SpecResolver == InitResolver /\ [][NextResolver]_vars

---------------------------------------------------------------------------
(* Claims about the stop resolver                                          *)

(* C22: for a stopRef of 3 to 6 digits getStopId looks the string up as a  *)
(* stop_code of the agency and returns the stored id if there is one; if   *)
(* none is found or the lookup fails it returns the digit string itself.   *)
C22_NumericStopReference ==
  (res.fn = "getStopId" /\ res.impl = "part_004" /\ isShortNumeric(trim(res.stopRef))) =>
     LET s == trim(res.stopRef)
         found == pgCodeRows("ttc", s)
     IN  /\ res.status = "returned"
         /\ IF pg.pool /\ ~res.queryFails /\ found # <<>>
              THEN \E i \in 1..Len(found) : res.id = found[i].id
              ELSE res.id = s

(* Sanity: with a pool configured part_004 does all of that *)
RES_NumericWithPool ==
  (res.fn = "getStopId" /\ res.impl = "part_004" /\ pg.pool
     /\ isShortNumeric(trim(res.stopRef))) =>
     LET s == trim(res.stopRef)
         found == pgCodeRows("ttc", s)
     IN  /\ res.status = "returned"
         /\ IF ~res.queryFails /\ found # <<>>
              THEN \E i \in 1..Len(found) : res.id = found[i].id
              ELSE res.id = s

(* C23: a stopRef of letters, digits, hyphen and underscore only is        *)
(* returned unchanged as the stop id and no name search is made, with or   *)
(* without a store that is configured and reachable.                       *)
C23_LiteralIdentifier ==
  (res.fn = "getStopId" /\ looksLikeId(trim(res.stopRef))
     /\ ~isShortNumeric(trim(res.stopRef))) =>
     /\ res.status = "returned"
     /\ res.id = trim(res.stopRef)
     /\ ~res.searched

(* Sanity: part_003 does so always, part_004 whenever a pool is configured *)
RES_LiteralPart003OrPool ==
  (res.fn = "getStopId" /\ looksLikeId(trim(res.stopRef))
     /\ ~isShortNumeric(trim(res.stopRef))
     /\ (res.impl = "part_003" \/ pg.pool)) =>
     /\ res.status = "returned"
     /\ res.id = trim(res.stopRef)
     /\ ~res.searched

(* The query as the resolver normalizes it, and the stops of the agency    *)
(* whose lower-cased name has every token of it                            *)
normalizedQuery(qry) == replaceStn(dashesToSpaces(lowerCase(trim(qry))))
IdsOf(rows) == {rows[i].id : i \in 1..Len(rows)}
SourceRows == IF res.opened THEN sqliteStopNames ELSE pg.stops
TokenMatches(agency, qry) ==
  {r \in Range(SourceRows) : r.agency = agency /\ everyTokenIn(r.name, tokensOf(trim(qry)))}
StoreRow(id) == CHOOSE r \in Range(pg.stops) : r.id = id

(* C24: for a free-text query the candidate set of findCandidateStopIds    *)
(* is exactly the stops of the agency whose lower-cased name contains      *)
(* every token of the normalized query; "Bloor Station" is a candidate for *)
(* "bloor stn".                                                            *)
C24_FuzzyNameSearch ==
  (res.fn = "findCandidateStopIds" /\ res.status = "returned" /\ pg.pool
     /\ ~looksLikeId(trim(res.stopRef)) /\ trim(res.stopRef) # <<>>) =>
     IdsOf(res.filtered) = {r.id : r \in TokenMatches("ttc", res.stopRef)}

(* Sanity: every candidate of part_004 has every token in its name, and a  *)
(* query that is itself part of the names finds them all.                  *)
RES_CandidatesHaveEveryToken ==
  (res.fn = "findCandidateStopIds" /\ res.impl = "part_004"
     /\ res.status = "returned") =>
     IdsOf(res.filtered) \subseteq {r.id : r \in TokenMatches("ttc", res.stopRef)}
RES_BloorStationFindsAll ==
  (res.fn = "findCandidateStopIds" /\ res.impl = "part_004"
     /\ res.status = "returned" /\ pg.pool /\ res.stopRef = <<"B", "l", "o", "o", "r", " ", "S", "t", "a", "t", "i", "o", "n">>) =>
     IdsOf(res.filtered) = {r.id : r \in TokenMatches("ttc", res.stopRef)}

(* The list is in descending order of score, equal scores in name order *)
scoreOfId(id, qry) ==
  IF wantsStationish(trim(qry)) THEN stationScore(StoreRow(id))
  ELSE defaultScore(StoreRow(id), trim(qry))
OrderedByScore(out, qry) ==
  \A i \in 1..Len(out), j \in 1..Len(out) :
     i < j => \/ scoreOfId(out[i].id, qry) > scoreOfId(out[j].id, qry)
              \/ /\ scoreOfId(out[i].id, qry) = scoreOfId(out[j].id, qry)
                 /\ compareNames(out[i].name, out[j].name) <= 0

(* C25: when the normalized query has the word "station" and a             *)
(* token-matching candidate has the word "platform" in its name, every     *)
(* candidate returned has "platform" in its name; the list is in           *)
(* descending order of score and equal scores are in name order.           *)
C25_StationPlatformDisambiguation ==
  (res.fn = "findCandidateStopIds" /\ res.impl = "part_004"
     /\ res.status = "returned" /\ res.searched) =>
     /\ OrderedByScore(res.out, res.stopRef)
     /\ (/\ hasWord(normalizedQuery(res.stopRef), STATION)
         /\ \E i \in 1..Len(res.filtered) : isPlatform(res.filtered[i])) =>
            \A i \in 1..Len(res.out) : isPlatform(res.out[i])

(* Sanity: it holds when the word "station" is in the query as typed; the  *)
(* three Bloor stops give the two platforms.                               *)
RES_TypedStationPrefersPlatforms ==
  (res.fn = "findCandidateStopIds" /\ res.impl = "part_004"
     /\ res.status = "returned" /\ res.searched) =>
     /\ OrderedByScore(res.out, res.stopRef)
     /\ (/\ wantsStationish(trim(res.stopRef))
         /\ \E i \in 1..Len(res.filtered) : isPlatform(res.filtered[i])) =>
            \A i \in 1..Len(res.out) : isPlatform(res.out[i])
RES_BloorScenario ==
  (res.fn = "findCandidateStopIds" /\ res.impl = "part_004"
     /\ res.status = "returned" /\ pg.stops = BloorStops
     /\ res.stopRef = <<"B", "l", "o", "o", "r", " ", "S", "t", "a", "t", "i", "o", "n">>) =>
     res.out = << [id |-> <<"P", "1">>, name |-> <<"B", "l", "o", "o", "r", " ", "S", "t", "a", "t", "i", "o", "n", " ", "-", " ", "P", "l", "a", "t", "f", "o", "r", "m", " ", "1">>],
                  [id |-> <<"P", "2">>, name |-> <<"B", "l", "o", "o", "r", " ", "S", "t", "a", "t", "i", "o", "n", " ", "-", " ", "P", "l", "a", "t", "f", "o", "r", "m", " ", "2">>] >>

---------------------------------------------------------------------------
(* Concurrent openTtcSqlite calls (part_002:154-161, lib/sqlite.js:52-59)  *)

MaxOpenCalls == 2        \* calls of openTtcSqlite one caller makes

InFlight(c) == opens.call[c].pc \in {"downloading", "gotFile"}

(* `if (DB) return DB`; else ensureSqliteLocal runs up to its first await: *)
(* a fresh file is returned, otherwise the download starts.                *)
openTtcSqliteCall(c) ==
  /\ opens.call[c].pc = "idle"
  /\ opens.call[c].n < MaxOpenCalls
  /\ opens' =
       IF opens.DB # 0
         THEN [opens EXCEPT !.call[c] = [pc |-> "done", got |-> opens.DB, n |-> @.n + 1]]
       ELSE IF IsFresh(file, fileAge, TTL_SQLITE_MS)
         THEN [opens EXCEPT !.call[c] = [pc |-> "gotFile", got |-> 0, n |-> @.n + 1],
                 !.overlapped = @ \/ \E d \in Callers \ {c} : InFlight(d)]
       ELSE [opens EXCEPT !.call[c] = [pc |-> "downloading", got |-> 0, n |-> @.n + 1],
               !.downloads = @ + 1,
               !.overlapped = @ \/ \E d \in Callers \ {c} : InFlight(d)]
  /\ UNCHANGED <<dlVars, zipVars, schedVars, stops, routeShort, feed, RT_CACHE, rt, env,
                 zipHasDates, LRU7, net, prime, pg, res, req, fetches, disk>>

(* The download of ensureSqliteLocal ends: the file is in place, or the    *)
(* call rejects                                                            *)
openDownloadEnds(c) ==
  /\ opens.call[c].pc = "downloading"
  /\ \E ok \in BOOLEAN :
       IF ok THEN /\ file' = RemoteBody(0) /\ fileAge' = 0
                  /\ opens' = [opens EXCEPT !.call[c].pc = "gotFile"]
             ELSE /\ UNCHANGED <<file, fileAge>>
                  /\ opens' = [opens EXCEPT !.call[c].pc = "failed"]
  /\ UNCHANGED <<remote, tmp, pc, dl, zipVars, schedVars, stops, routeShort, feed,
                 RT_CACHE, rt, env, zipHasDates, LRU7, net, prime, pg, res, req, fetches, disk>>

(* After the await: DB = new Database(file, ...); sqliteReady = true;      *)
(* return DB                                                               *)
openCreatesHandle(c) ==
  /\ opens.call[c].pc = "gotFile"
  /\ opens' = [opens EXCEPT !.handles = @ + 1, !.DB = opens.handles + 1,
                 !.call[c].pc = "done", !.call[c].got = opens.handles + 1]
  /\ sqliteReady' = TRUE
  /\ UNCHANGED <<dlVars, zipVars, stop_times, calendar_dates, hostOffset, arg, LRU, clock,
                 q, nCalls, stops, routeShort, feed, RT_CACHE, rt, env, zipHasDates, LRU7,
                 net, prime, pg, res, req, fetches, disk>>

(* The caller has its handle or its error and may call again *)
openReturns(c) ==
  /\ opens.call[c].pc \in {"done", "failed"}
  /\ opens' = [opens EXCEPT !.call[c].pc = "idle", !.call[c].got = 0]
  /\ UNCHANGED <<dlVars, zipVars, schedVars, stops, routeShort, feed, RT_CACHE, rt, env,
                 zipHasDates, LRU7, net, prime, pg, res, req, fetches, disk>>

InitOpen ==
  /\ opens = IdleOpens
  /\ file \in {<<>>, [i \in 1..1 |-> <<1, i>>]}
  /\ remote = [size |-> 1, ver |-> 1, was |-> 0]
  /\ fileAge = 0 /\ tmp = <<>> /\ pc = "idle" /\ dl = IdleDl
  /\ zip = <<>> /\ zipAge = 0 /\ zipTmp = <<>>
  /\ zc = IdleZc
  /\ disk = IdleDisk
  /\ fetches = IdleFetches
  /\ req = IdleReq
  /\ res = IdleRes
  /\ pg = NoPg
  /\ env = [SQLITE_URL |-> TRUE, GTFS_URL |-> TRUE]
  /\ stop_times = <<>> /\ calendar_dates = <<>> /\ hostOffset = TorontoOffset
  /\ arg = [stopId |-> "A", limit |-> 1, routeRef |-> NoRef]
  /\ sqliteReady = FALSE /\ LRU = <<>> /\ clock = 0 /\ q = IdleQ /\ nCalls = 0
  /\ prime = IdlePrime /\ net = "up" /\ LRU7 = <<>> /\ zipHasDates = TRUE
  /\ rt = IdleRt /\ RT_CACHE = <<>> /\ feed = <<>> /\ routeShort = <<>>
  /\ stops = StopsTxt

NextOpen ==
  \/ \E c \in Callers : openTtcSqliteCall(c)
  \/ \E c \in Callers : openDownloadEnds(c)
  \/ \E c \in Callers : openCreatesHandle(c)
  \/ \E c \in Callers : openReturns(c)

SpecOpen == InitOpen /\ [][NextOpen]_vars

(* C26: for every interleaving of concurrent openTtcSqlite calls started   *)
(* while no handle exists, at most one download of the snapshot is under   *)
(* way, at most one Database handle is ever created, and every caller      *)
(* receives that same handle.                                              *)
C26_SingletonHandle ==
  /\ Cardinality({c \in Callers : opens.call[c].pc = "downloading"}) <= 1
  /\ opens.handles <= 1
  /\ \A c \in Callers : opens.call[c].pc = "done" => opens.call[c].got = opens.DB

(* Sanity: calls that never overlap before the handle exists keep the      *)
(* handle single, and the flag is set with the handle.                     *)
OPEN_SequentialCallsShareHandle ==
  ~opens.overlapped =>
     /\ opens.handles <= 1
     /\ \A c \in Callers : opens.call[c].pc = "done" => opens.call[c].got = opens.DB
OPEN_ReadyIffHandle == sqliteReady <=> opens.DB # 0

---------------------------------------------------------------------------
(* Read paths and the readiness flag                                       *)

(* Whether the read path of the implementation asks isSqliteReady() before *)
(* it calls openTtcSqlite():                                               *)
(*   schedule-sqlite.js:24, :34  if (isSqliteReady()) / if (!isSqliteReady()) *)
(*   part_005:47, part_003:39    if (isSqliteReady())                      *)
(*   adapters/ttc.js:50-51, part_001:32, :38   no test                     *)
ReadPaths ==
  { [path |-> "schedule", impl |-> "schedule-sqlite.js"],
    [path |-> "schedule", impl |-> "part_001"],
    [path |-> "station-expansion", impl |-> "schedule-sqlite.js"],
    [path |-> "station-expansion", impl |-> "part_001"],
    [path |-> "realtime", impl |-> "part_005"],
    [path |-> "realtime", impl |-> "adapters/ttc.js"],
    [path |-> "stop-resolution", impl |-> "part_003"] }
checksReady(impl) == impl \in {"schedule-sqlite.js", "part_005", "part_003"}

(* One read request.  It calls openTtcSqlite() if its path does not test   *)
(* the flag or the flag is set; a realtime request does so only when the   *)
(* feed had rows for the stop.  A call made with DB = null runs            *)
(* ensureSqliteLocal and the open, and the request waits for it.           *)
readRequest ==
  /\ \E p \in ReadPaths, rows \in BOOLEAN :
       LET calls == /\ (p.path = "realtime" => rows)
                    /\ (checksReady(p.impl) => sqliteReady)
       IN  \E outcome \in IF calls /\ ~sqliteReady THEN openOutcomes("sqlite.js")
                          ELSE {"none"} :
             /\ req' = [path |-> p.path, impl |-> p.impl, ready |-> sqliteReady,
                        openCalled |-> calls, outcome |-> outcome]
             /\ sqliteReady' = (sqliteReady \/ outcome = "ok")
             /\ file' = IF outcome \in {"ok", "unreadable file"} THEN RemoteBody(1)
                        ELSE file
             /\ fileAge' = IF outcome \in {"ok", "unreadable file"} THEN 0 ELSE fileAge
  /\ UNCHANGED <<remote, tmp, pc, dl, zipVars, stop_times, calendar_dates, hostOffset,
                 arg, LRU, clock, q, nCalls, stops, routeShort, feed, RT_CACHE, rt, env,
                 zipHasDates, LRU7, net, prime, pg, res, opens, fetches, disk>>

InitReads ==
  /\ env \in [SQLITE_URL : BOOLEAN, GTFS_URL : {TRUE}]
  /\ net \in NetStates
  /\ prime = IdlePrime
  /\ req = IdleReq
  /\ remote = [size |-> 1, ver |-> 1, was |-> 0]
  /\ file = <<>> /\ fileAge = 0 /\ tmp = <<>> /\ pc = "idle" /\ dl = IdleDl
  /\ zip = <<>> /\ zipAge = 0 /\ zipTmp = <<>> /\ zc = IdleZc /\ opens = IdleOpens
  /\ res = IdleRes /\ pg = NoPg
  /\ stop_times = <<>> /\ calendar_dates = <<>> /\ hostOffset = TorontoOffset
  /\ arg = [stopId |-> "A", limit |-> 1, routeRef |-> NoRef]
  /\ sqliteReady = FALSE /\ LRU = <<>> /\ clock = 0 /\ q = IdleQ /\ nCalls = 0
  /\ LRU7 = <<>> /\ zipHasDates = TRUE
  /\ rt = IdleRt /\ RT_CACHE = <<>> /\ feed = <<>> /\ routeShort = <<>>
  /\ stops = StopsTxt
  /\ fetches = IdleFetches
  /\ disk = IdleDisk

NextReads ==
  \/ readRequest
  \/ primeSQLiteCall
  \/ primeOpenSettles
  \/ primeRetryTimer
  \/ NetChange

SpecReads == InitReads /\ [][NextReads]_vars

(* C27: every read path tests isSqliteReady() before it touches the        *)
(* snapshot: while the flag is false no realtime, schedule,                *)
(* station-expansion or stop-resolution request calls openTtcSqlite.       *)
C27_ReadPathsCheckReadiness ==
  (req.path # "none" /\ ~req.ready) => ~req.openCalled

(* Sanity: the paths that test the flag never call it unready, and a       *)
(* request that did call it unready went through the download and open.    *)
READS_GuardedPathsDoNotOpen ==
  (req.path # "none" /\ ~req.ready /\ checksReady(req.impl)) => ~req.openCalled
READS_UnguardedWaitsOnOpen ==
  (req.path # "none" /\ ~req.ready /\ req.openCalled) =>
     /\ req.impl \in {"part_001", "adapters/ttc.js"}
     /\ req.outcome \in OpenFailures \cup {"ok"}

---------------------------------------------------------------------------
(* Atomic replacement of the local artifacts                               *)

(* C28: network bytes go to a temporary file only and the final path is    *)
(* created or replaced only by renaming a completely written temporary     *)
(* file: the final path of the snapshot and of the archive never holds an  *)
(* incompletely transferred artifact.                                      *)
C28_AtomicReplacement ==
  [][/\ (zip' # zip) => (zc'.ret = "ok" /\ ZipViaTmp(zc'.impl))
     /\ ~dl'.appended
     /\ (file' # file /\ file' # <<>>) => dl'.nFail = dl.nFail
    ]_vars

(* Sanity: an ensureZipLocal that streams into `.downloading` leaves the   *)
(* final path alone when the transfer fails, and a failed attempt of       *)
(* downloadWithResume that is no restart leaves the final file alone.      *)
ATOMIC_TmpImplsKeepFinalOnFailure ==
  [][(zc.ret = "none" /\ zc'.ret = "err" /\ ZipViaTmp(zc'.impl)) =>
        UNCHANGED <<zip, zipAge>>]_vars
ATOMIC_FailedAttemptKeepsFinal ==
  [][(pc = "attempt" /\ dl'.nFail > dl.nFail /\ ~(dl'.got200 /\ ~dl.got200)) =>
        (file' = file \/ file' = <<>>)]_vars

---------------------------------------------------------------------------
(* The backoff of downloadWithResume                                       *)

(* C29: the wait between attempt k and attempt k + 1 grows exponentially   *)
(* with k, each wait a constant multiple of the one before until the cap,  *)
(* and never exceeds 180 seconds.                                          *)
C29_BackoffSchedule ==
  LET w == dl.waits
  IN  /\ \A i \in 1..Len(w) : w[i] <= 180000
      /\ \A i \in 1..(Len(w) - 1) : w[i + 1] > w[i] \/ w[i + 1] = 180000
      /\ Len(w) = 3 =>
           \/ w[3] = 180000
           \/ (w[3] \div 1000) * (w[1] \div 1000) = (w[2] \div 1000) * (w[2] \div 1000)

(* Sanity: the waits are positive, never above 180 s, and each is 30 s     *)
(* more than the one before until the cap.                                 *)
BACKOFF_LinearCapped ==
  LET w == dl.waits
  IN  /\ \A i \in 1..Len(w) : w[i] > 0 /\ w[i] <= 180000
      /\ \A i \in 1..(Len(w) - 1) : w[i + 1] = Min(w[i] + 30000, 180000)

---------------------------------------------------------------------------
(* The route names of the realtime list: nextArrivalsByStop on feeds whose *)
(* trips the snapshot and the archive's route table know or do not know    *)

NameEntities ==
  { [tripUpdate |-> TRUE, tripId |-> "T1", routeId |-> "R1",
     stopTimeUpdate |-> <<Stu("A", 6, NoTime)>>],
    [tripUpdate |-> TRUE, tripId |-> "T3", routeId |-> "R2",
     stopTimeUpdate |-> <<Stu("A", 4, 7)>>],
    \* a trip the snapshot has no row for, on a route of routes.txt
    [tripUpdate |-> TRUE, tripId |-> "T9", routeId |-> "R1",
     stopTimeUpdate |-> <<Stu("A", 7, NoTime)>>],
    \* a trip whose feed route id is in no table
    [tripUpdate |-> TRUE, tripId |-> "T8", routeId |-> "R9",
     stopTimeUpdate |-> <<Stu("A", 8, NoTime)>>],
    \* trip.routeId missing
    [tripUpdate |-> TRUE, tripId |-> "T1", routeId |-> "",
     stopTimeUpdate |-> <<Stu("A", 8, NoTime)>>],
    \* the feed names another route than the snapshot does for the trip
    [tripUpdate |-> TRUE, tripId |-> "T3", routeId |-> "R1",
     stopTimeUpdate |-> <<Stu("A", 6, NoTime)>>] }
NameFeeds == SeqsUpTo(NameEntities, MaxEntities)
NameArgs == [stopId : {"A"}, routeRef : {NoRef, <<"8", "3", "A">>}, limit : {1, 3}]

InitNames ==
  /\ feed \in NameFeeds
  /\ arg \in NameArgs
  /\ sqliteReady \in BOOLEAN
  /\ RT_CACHE = <<>>
  /\ rt \in {[IdleRt EXCEPT !.impl = i] : i \in RtImpls}
  /\ stops = StopsTxt /\ routeShort = <<>>
  /\ stop_times = <<>> /\ calendar_dates = <<>> /\ hostOffset = TorontoOffset
  /\ LRU = <<>> /\ clock = 0 /\ q = IdleQ /\ nCalls = 0
  /\ remote = [size |-> 1, ver |-> 1, was |-> 0]
  /\ file = <<>> /\ fileAge = 0 /\ tmp = <<>> /\ pc = "idle" /\ dl = IdleDl
  /\ zip = <<>> /\ zipAge = 0 /\ zipTmp = <<>>
  /\ zc = IdleZc
  /\ disk = IdleDisk
  /\ fetches = IdleFetches
  /\ req = IdleReq
  /\ opens = IdleOpens
  /\ res = IdleRes
  /\ pg = NoPg
  /\ prime = IdlePrime
  /\ net = "up"
  /\ LRU7 = <<>>
  /\ zipHasDates = TRUE
  /\ env = [SQLITE_URL |-> TRUE, GTFS_URL |-> TRUE]

NextNames ==
  \/ nextArrivalsByStop
  \/ RtTick

SpecNames == InitNames /\ [][NextNames]_vars


(* The trips of the matched stop-time updates of the call recorded in rt   *)
MatchedTrips == { feed[p.e].tripId : p \in RtMatches } \ {""}

(* The name the snapshot gives a trip: the name of the route of its row in *)
(* trips, <<>> if the snapshot has no such trip                            *)
SnapshotName(tid) ==
  LET tr == {i \in 1..Len(trips) : trips[i].trip_id = tid}
      ro == {j \in 1..Len(routes) : \E i \in tr : routes[j].route_id = trips[i].route_id}
  IN  IF ro = {} THEN <<>> ELSE routes[CHOOSE j \in ro : TRUE].route_short_name

(* The route ids the feed's trip updates carry for a trip, and the name    *)
(* the archive's route table has for a route id                            *)
FeedRouteIds(tid) ==
  { feed[e].routeId : e \in {x \in 1..Len(feed) : feed[x].tripUpdate /\ feed[x].tripId = tid} }
  \ {""}
ArchiveName(rid) ==
  LET ro == {j \in 1..Len(routes) : routes[j].route_id = rid}
  IN  IF ro = {} THEN <<>> ELSE routes[CHOOSE j \in ro : TRUE].route_short_name

(* The first step: the snapshot is ready, the step ran without failure and *)
(* named at least one matched trip                                         *)
StepOneResolved ==
  /\ sqliteReady /\ rt.sqliteOk
  /\ \E tid \in MatchedTrips : SnapshotName(tid) # <<>>

(* The names of the returned list follow the resolution order.  rt.zipOk   *)
(* is FALSE only if the archive was read and the read failed.  A trip for  *)
(* which the feed carries two different route ids has no single feed route *)
(* id and is left out of the conjunct on the archive's names.              *)
ResolutionOrder ==
  /\ rt.err => (rt.fetched /\ rt.outcome # "ok")
  /\ rt.zipRead => (~rt.err /\ ~StepOneResolved)
  /\ \A i \in 1..Len(rt.out) :
       LET tid == feed[rt.out[i].e].tripId
           name == rt.out[i].routeShortName
       IN  /\ StepOneResolved => name = SnapshotName(tid)
           /\ (~StepOneResolved /\ rt.zipOk)
              => \A rid \in FeedRouteIds(tid) :
                   FeedRouteIds(tid) = {rid} => name = ArchiveName(rid)
           /\ (~StepOneResolved /\ ~rt.zipOk) => name = <<>>

(* C30: in nextArrivalsByStop the names come from the snapshot's trip to   *)
(* route mapping when the snapshot is ready; the archive's route table is  *)
(* read only when that step named no matched trip at all, and then every   *)
(* matched trip whose feed route id is in the table gets that table's      *)
(* name; a failure of either step never fails the call (only the feed      *)
(* fetch does).                                                            *)
C30_RouteNameResolutionOrder ==
  rt.fn = "nextArrivalsByStop" => ResolutionOrder

(* Sanity: the adapter of part_005 follows the order.                      *)
NAMES_Part005FollowsOrder ==
  (rt.fn = "nextArrivalsByStop" /\ rt.impl = "part_005") => ResolutionOrder

(* Sanity: adapters/ttc.js never reads the archive's route table, and      *)
(* leaves every name empty when its snapshot step throws.                  *)
NAMES_BackendHasNoFallback ==
  (rt.fn = "nextArrivalsByStop" /\ rt.impl = "adapters/ttc.js")
  => /\ ~rt.zipRead
     /\ ~rt.sqliteOk => \A i \in 1..Len(rt.out) : rt.out[i].routeShortName = <<>>

(* The snapshot is ready but the first step threw; the archive's table was *)
(* read and named a returned trip the snapshot has no row for.             *)
NAMES_FallbackAfterFailure ==
  /\ rt.fn = "nextArrivalsByStop" /\ ~rt.err
  /\ sqliteReady /\ ~rt.sqliteOk /\ rt.zipRead /\ rt.zipOk
  /\ \E i \in 1..Len(rt.out) :
       /\ feed[rt.out[i].e].tripId = "T9"
       /\ rt.out[i].routeShortName = ArchiveName("R1")
       /\ rt.out[i].routeShortName # <<>>

(* Sanity: once the snapshot names one matched trip the archive is not     *)
(* read, so a trip the snapshot does not know stays unnamed even though    *)
(* its feed route id is in the archive's table.                            *)
NAMES_PartialResolutionSkipsArchive ==
  (/\ rt.fn = "nextArrivalsByStop" /\ ~rt.err /\ StepOneResolved
   /\ rt.impl = "part_005")
  => /\ ~rt.zipRead
     /\ \A i \in 1..Len(rt.out) :
          feed[rt.out[i].e].tripId = "T9" => rt.out[i].routeShortName = <<>>

(* Sanity: both steps failing leaves every name empty and the call answers *)
NAMES_BothStepsFailing ==
  (/\ rt.fn = "nextArrivalsByStop" /\ rt.outcome = "ok"
   /\ (~sqliteReady \/ ~rt.sqliteOk) /\ rt.zipRead /\ ~rt.zipOk)
  => /\ ~rt.err
     /\ \A i \in 1..Len(rt.out) : rt.out[i].routeShortName = <<>>

(* Reachable: the snapshot's route wins over the feed's for a trip.        *)
NAMES_SnapshotBeatsFeedRoute ==
  /\ rt.fn = "nextArrivalsByStop" /\ ~rt.err /\ StepOneResolved
  /\ \E i \in 1..Len(rt.out) :
       /\ feed[rt.out[i].e].tripId = "T3" /\ feed[rt.out[i].e].routeId = "R1"
       /\ rt.out[i].routeShortName = <<"8", "3", "A">>

(* Reachable: every matched trip is unknown to the snapshot while it is    *)
(* ready, and the archive names the trips.                                 *)
NAMES_ReadyButUnknownTrips ==
  /\ rt.fn = "nextArrivalsByStop" /\ ~rt.err /\ sqliteReady /\ rt.sqliteOk
  /\ rt.zipRead /\ rt.zipOk
  /\ \E i \in 1..Len(rt.out) : rt.out[i].routeShortName # <<>>

(* Neither step gave a name: the snapshot step did not run or threw, and   *)
(* the archive's table was not read or its read failed                     *)
NamesUnresolvable ==
  /\ ~snapshotStepRuns(rt.impl) \/ ~rt.sqliteOk
  /\ ~(rt.zipRead /\ rt.zipOk)

(* The returned list holds the earliest matching predicted times, up to    *)
(* the limit                                                               *)
TimesReturned ==
  /\ RtOutPairs \subseteq RtMatches
  /\ Len(rt.out) = Min(Max(1, arg.limit), Cardinality(RtMatches))

(* C31: when the route names cannot be resolved (snapshot missing or not   *)
(* ready, no archive fallback), a nextArrivalsByStop call whose feed fetch *)
(* succeeded still returns the matching predicted times, also when a       *)
(* routeRef was requested.                                                 *)
C31_UnresolvedNamesKeepTimes ==
  (rt.fn = "nextArrivalsByStop" /\ ~rt.err /\ NamesUnresolvable)
  => TimesReturned

(* Sanity: without a routeRef the times are returned whatever the names.   *)
NAMES_NoRefKeepsTimes ==
  (rt.fn = "nextArrivalsByStop" /\ ~rt.err /\ arg.routeRef = NoRef)
  => TimesReturned

(* Sanity: with a routeRef and no names the list is empty.                 *)
NAMES_RefWithoutNamesIsEmpty ==
  (/\ rt.fn = "nextArrivalsByStop" /\ ~rt.err /\ NamesUnresolvable
   /\ arg.routeRef # NoRef)
  => rt.out = <<>>

(* Reachable: matching times exist, a routeRef was given, no name resolved *)
NAMES_RefDropsMatches ==
  /\ rt.fn = "nextArrivalsByStop" /\ ~rt.err /\ NamesUnresolvable
  /\ arg.routeRef # NoRef /\ RtMatches # {} /\ rt.out = <<>>

---------------------------------------------------------------------------
(* fetchRT as the event loop runs it: the call reads the clock and the     *)
(* cache, and if there is no fresh entry awaits fetch(); the entry is      *)
(* stored when the response has arrived, with the time the call started.   *)
(* Other calls run while a request is in flight.                           *)

timeoutMs == 8000           \* { timeoutMs = 8000 }
FeedTickMs == 2500          \* Date.now() advances in steps of 2.5 s here
MaxFeedTicks == 4           \* steps the clock makes
MaxFlights == 2             \* requests in flight at a time
TwoUrls == {"trips", "alerts"}
FiveUrls == {"vehicles", "trips", "alerts", "other1", "other2"}

(* The start of the newest fetch of url that has succeeded so far          *)
okStart(url) ==
  IF \E e \in fetches.lastOk : e.url = url
    THEN (CHOOSE e \in fetches.lastOk : e.url = url).t
    ELSE NoStart

(* part_006:8-10: the call up to the await.  A fresh entry is returned at  *)
(* once; otherwise the request is issued.                                  *)
fetchRTCall(urls, maxFlights) ==
  \E url \in urls :
  \E f \in {fetchRT(url, "ok")} :
    IF ~f.fetched
      THEN /\ fetches' = [fetches EXCEPT !.ret =
                            [kind |-> "call", url |-> url, at |-> clock, hit |-> TRUE,
                             t |-> rtGet(RT_CACHE, url).t, okBefore |-> okStart(url),
                             msg |-> f.msg, err |-> FALSE]]
           /\ UNCHANGED <<RT_CACHE, dlVars, zipVars, schedVars, stops, routeShort, feed,
                          rt, env, zipHasDates, LRU7, net, prime, pg, res, opens, req, disk>>
      ELSE /\ Cardinality(fetches.flights) < maxFlights
           /\ [url |-> url, t |-> clock] \notin fetches.flights
           /\ fetches' = [fetches EXCEPT
                            !.flights = @ \cup {[url |-> url, t |-> clock]},
                            !.ret = [kind |-> "call", url |-> url, at |-> clock, hit |-> FALSE,
                                     t |-> NoStart, okBefore |-> okStart(url),
                                     msg |-> <<>>, err |-> FALSE]]
           /\ UNCHANGED <<RT_CACHE, dlVars, zipVars, schedVars, stops, routeShort, feed,
                          rt, env, zipHasDates, LRU7, net, prime, pg, res, opens, req, disk>>

(* part_006:14-24: the awaited fetch settles.  A response that is ok is    *)
(* decoded and stored under the time the call started (its message holds   *)
(* the time the server answered); a non-ok status or the abort at          *)
(* timeoutMs throws and stores nothing.                                    *)
fetchRTSettles ==
  \E fl \in fetches.flights, outcome \in {"ok", "status", "timeout"} :
    /\ outcome = "timeout" => clock + FeedTickMs - fl.t >= timeoutMs
    /\ RT_CACHE' = IF outcome = "ok"
                     THEN rtSet(RT_CACHE, fl.url,
                                [url |-> fl.url, t |-> fl.t, msg |-> <<clock>>])
                     ELSE RT_CACHE
    /\ fetches' =
         [fetches EXCEPT
            !.flights = @ \ {fl},
            !.lastOk = IF outcome # "ok" \/ okStart(fl.url) >= fl.t THEN @
                       ELSE {e \in @ : e.url # fl.url} \cup {fl},
            !.order = IF outcome # "ok" \/ fl.url \in Range(@) THEN @
                      ELSE IF Len(@) >= RT_CACHE_MAX THEN Append(Tail(@), fl.url)
                      ELSE Append(@, fl.url),
            !.ret = [kind |-> "settled", url |-> fl.url, at |-> fl.t, hit |-> FALSE,
                     t |-> fl.t,
                     okBefore |-> okStart(fl.url),
                     msg |-> IF outcome = "ok" THEN <<clock>> ELSE <<>>,
                     err |-> outcome # "ok"]]
    /\ UNCHANGED <<dlVars, zipVars, schedVars, stops, routeShort, feed,
                   rt, env, zipHasDates, LRU7, net, prime, pg, res, opens, req, disk>>

(* Date.now() moves on; a request is aborted before it is timeoutMs old    *)
FeedTick(maxTicks) ==
  /\ clock < maxTicks * FeedTickMs
  /\ \A fl \in fetches.flights : clock + FeedTickMs - fl.t < timeoutMs
  /\ clock' = clock + FeedTickMs
  /\ UNCHANGED <<stop_times, calendar_dates, hostOffset, arg, sqliteReady, LRU, q, nCalls,
                 dlVars, zipVars, extVars>>

InitFeed ==
  /\ feed = <<>>
  /\ arg = [stopId |-> "A", routeRef |-> NoRef, limit |-> 1]
  /\ sqliteReady = FALSE
  /\ RT_CACHE = <<>> /\ rt = IdleRt
  /\ stops = StopsTxt /\ routeShort = <<>>
  /\ stop_times = <<>> /\ calendar_dates = <<>> /\ hostOffset = TorontoOffset
  /\ LRU = <<>> /\ clock = 0 /\ q = IdleQ /\ nCalls = 0
  /\ remote = [size |-> 1, ver |-> 1, was |-> 0]
  /\ file = <<>> /\ fileAge = 0 /\ tmp = <<>> /\ pc = "idle" /\ dl = IdleDl
  /\ zip = <<>> /\ zipAge = 0 /\ zipTmp = <<>>
  /\ zc = IdleZc
  /\ disk = IdleDisk
  /\ fetches = IdleFetches
  /\ req = IdleReq
  /\ opens = IdleOpens
  /\ res = IdleRes
  /\ pg = NoPg
  /\ prime = IdlePrime
  /\ net = "up"
  /\ LRU7 = <<>>
  /\ zipHasDates = TRUE
  /\ env = [SQLITE_URL |-> TRUE, GTFS_URL |-> TRUE]

NextFeed ==
  \/ fetchRTCall(TwoUrls, MaxFlights)
  \/ fetchRTSettles
  \/ FeedTick(MaxFeedTicks)

SpecFeed == InitFeed /\ [][NextFeed]_vars

(* C32: after a successful fetchRT(url) that started at t, a call for url  *)
(* made less than ttlMs after t returns the cached message and issues no   *)
(* request; a call made when no successful fetch of url started less than  *)
(* ttlMs ago issues a request; and a returned cached message is never      *)
(* ttlMs old or older.                                                     *)
C32_FeedCacheTtl ==
  LET r == fetches.ret
      fresh == r.okBefore # NoStart /\ r.at - r.okBefore < RT_CACHE_TTL_MS
  IN  r.kind = "call"
      => /\ fresh => r.hit
         /\ ~fresh => ~r.hit
         /\ r.hit => (r.at - r.t < RT_CACHE_TTL_MS /\ r.at - r.msg[1] < RT_CACHE_TTL_MS)

(* Sanity: a message returned from the cache is younger than ttlMs, by the *)
(* start of its fetch and by the time the server answered.                 *)
FEED_HitIsYoung ==
  LET r == fetches.ret
  IN  (r.kind = "call" /\ r.hit)
      => (r.at - r.t < RT_CACHE_TTL_MS /\ r.at - r.msg[1] < RT_CACHE_TTL_MS)

(* Sanity: a call made when no successful fetch of the URL started less    *)
(* than ttlMs ago issues a request.                                        *)
FEED_ExpiredIsFetched ==
  LET r == fetches.ret
  IN  (/\ r.kind = "call"
       /\ r.okBefore = NoStart \/ r.at - r.okBefore >= RT_CACHE_TTL_MS)
      => ~r.hit

(* Reachable: a fetch that started earlier settled later and replaced the  *)
(* entry of a fetch that started after it.                                 *)
FEED_OlderFetchOverwrites ==
  \E i \in 1..Len(RT_CACHE) :
    /\ okStart(RT_CACHE[i].url) > RT_CACHE[i].t
    /\ fetches.ret.kind = "call" /\ fetches.ret.url = RT_CACHE[i].url
    /\ fetches.ret.at - okStart(RT_CACHE[i].url) < RT_CACHE_TTL_MS
    /\ ~fetches.ret.hit

---------------------------------------------------------------------------
(* The bound of the feed cache: calls over five URLs                       *)

BoundFlights == 2           \* requests in flight at a time in SpecFeedBound
BoundTicks == 1             \* steps the clock makes in SpecFeedBound

NextFeedBound ==
  \/ fetchRTCall(FiveUrls, BoundFlights)
  \/ fetchRTSettles
  \/ FeedTick(BoundTicks)

SpecFeedBound == InitFeed /\ [][NextFeedBound]_vars

(* The URLs the cache holds *)
CachedUrls(cache) == {cache[i].url : i \in 1..Len(cache)}

(* C33: the feed cache never holds more than 4 entries; when storing an    *)
(* entry takes it past 4, the entry removed is that of the URL that was    *)
(* inserted first among those held, and never the entry just stored.       *)
C33_FeedCacheBound ==
  [][/\ Len(RT_CACHE') <= 4
     /\ Cardinality(CachedUrls(RT_CACHE')) = Len(RT_CACHE')
     /\ \A u \in CachedUrls(RT_CACHE) \ CachedUrls(RT_CACHE') :
          /\ Len(RT_CACHE) = 4
          /\ u = Head(fetches.order)
          /\ fetches'.ret.url # u
     /\ (RT_CACHE' # RT_CACHE)
        => \E i \in 1..Len(RT_CACHE') :
             /\ RT_CACHE'[i].url = fetches'.ret.url
             /\ RT_CACHE'[i].t = fetches'.ret.t
             /\ RT_CACHE'[i].msg = fetches'.ret.msg]_vars

(* Four URLs are cached and a fifth was stored: the first one is gone.     *)
C33_Witness ==
  /\ Len(RT_CACHE) = 4
  /\ Len(fetches.order) = 4
  /\ fetches.ret.kind = "settled" /\ ~fetches.ret.err
  /\ RT_CACHE[4].url = fetches.ret.url
  /\ \E e \in fetches.lastOk : e.url \notin CachedUrls(RT_CACHE)
  /\ \A i \in 1..4 : RT_CACHE[i].url = fetches.order[i]

(* Sanity: the cache holds its URLs in the order they were inserted.       *)
FEED_InsertionOrder ==
  /\ Len(RT_CACHE) = Len(fetches.order)
  /\ \A i \in 1..Len(RT_CACHE) : RT_CACHE[i].url = fetches.order[i]

(* Reachable: an entry is evicted while it is younger than ttlMs, so the   *)
(* next call for its URL issues a request.                                 *)
FEED_EvictedWhileFresh ==
  LET r == fetches.ret
  IN  /\ r.kind = "call" /\ ~r.hit
      /\ r.okBefore # NoStart /\ r.at - r.okBefore < RT_CACHE_TTL_MS
      /\ r.url \notin CachedUrls(RT_CACHE)

---------------------------------------------------------------------------
(* The result cache as the requests use it: lruGet(key) when a request     *)
(* arrives, and after a miss the archive scan (awaited) and lruSet(key).   *)
(* Requests overlap, so lruSet may find the key stored by another request. *)
(* LRU_MAX (80, and 50 in part_007) is scaled down to LruCap.              *)

LruCap == 2                 \* stands for LRU_MAX
LruTickMs == 30000          \* Date.now() advances in steps of 30 s here
MaxLruTicks == 3            \* steps the clock makes
MaxScans == 2               \* archive scans under way at a time
LruKeys == {"k1", "k2", "k3"}

(* q in this part: the last lruGet or lruSet, the scans under way per key, *)
(* and the keys held, least recently used (stored or returned) first       *)
IdleLru == [fn |-> "none", key |-> "none", hit |-> FALSE, t |-> 0, aged |-> FALSE,
            scans |-> [k \in LruKeys |-> 0], recency |-> <<>>, replaced |-> FALSE]

KeysOf(map) == {map[i].key : i \in 1..Len(map)}
Without(keys, k) == SelectSeq(keys, LAMBDA x : x # k)
ScansUnderWay == q.scans["k1"] + q.scans["k2"] + q.scans["k3"]

(* part_008:171-172, part_007:131-132: const cached = lruGet(key);         *)
(* if (cached) return cached; otherwise the scan starts                    *)
lruGetCall ==
  \E key \in LruKeys :
    /\ lruHit(key) \/ ScansUnderWay < MaxScans
    /\ LRU' = lruGet(key)
    /\ q' = [q EXCEPT
               !.fn = "lruGet", !.key = key, !.hit = lruHit(key),
               !.t = IF lruAt(key) = {} THEN 0 ELSE LRU[CHOOSE i \in lruAt(key) : TRUE].t,
               !.aged = lruAt(key) # {} /\ ~lruHit(key),
               !.scans = IF lruHit(key) THEN @ ELSE [@ EXCEPT ![key] = @ + 1],
               !.recency = IF lruAt(key) = {} THEN @
                           ELSE IF lruHit(key) THEN Append(Without(@, key), key)
                           ELSE Without(@, key)]
    /\ UNCHANGED <<stop_times, calendar_dates, hostOffset, arg, sqliteReady, clock, nCalls,
                   dlVars, zipVars, extVars>>

(* part_008:204, :220, :250, part_007:161, :180, :207: a scan ends and     *)
(* stores its list: lruSet(key, data)                                      *)
lruSetCall ==
  \E key \in LruKeys :
    /\ q.scans[key] > 0
    /\ LRU' = lruSetMax(LRU, key, <<>>, LruCap)
    /\ q' = [q EXCEPT
               !.fn = "lruSet", !.key = key, !.hit = FALSE, !.t = clock, !.aged = FALSE,
               !.scans = [@ EXCEPT ![key] = @ - 1],
               !.replaced = @ \/ lruAt(key) # {},
               !.recency = LET r == Append(Without(@, key), key)
                           IN  IF Len(r) > LruCap THEN Tail(r) ELSE r]
    /\ UNCHANGED <<stop_times, calendar_dates, hostOffset, arg, sqliteReady, clock, nCalls,
                   dlVars, zipVars, extVars>>

(* Date.now() moves on *)
LruTick ==
  /\ clock < MaxLruTicks * LruTickMs
  /\ clock' = clock + LruTickMs
  /\ UNCHANGED <<stop_times, calendar_dates, hostOffset, arg, sqliteReady, LRU, q, nCalls,
                 dlVars, zipVars, extVars>>

InitLru ==
  /\ feed = <<>>
  /\ arg = [stopId |-> "A", routeRef |-> NoRef, limit |-> 1]
  /\ sqliteReady = FALSE
  /\ RT_CACHE = <<>> /\ rt = IdleRt
  /\ stops = StopsTxt /\ routeShort = <<>>
  /\ stop_times = <<>> /\ calendar_dates = <<>> /\ hostOffset = TorontoOffset
  /\ LRU = <<>> /\ clock = 0 /\ q = IdleLru /\ nCalls = 0
  /\ remote = [size |-> 1, ver |-> 1, was |-> 0]
  /\ file = <<>> /\ fileAge = 0 /\ tmp = <<>> /\ pc = "idle" /\ dl = IdleDl
  /\ zip = <<>> /\ zipAge = 0 /\ zipTmp = <<>>
  /\ zc = IdleZc
  /\ disk = IdleDisk
  /\ fetches = IdleFetches
  /\ req = IdleReq
  /\ opens = IdleOpens
  /\ res = IdleRes
  /\ pg = NoPg
  /\ prime = IdlePrime
  /\ net = "up"
  /\ LRU7 = <<>>
  /\ zipHasDates = TRUE
  /\ env = [SQLITE_URL |-> TRUE, GTFS_URL |-> TRUE]

NextLru ==
  \/ lruGetCall
  \/ lruSetCall
  \/ LruTick

SpecLru == InitLru /\ [][NextLru]_vars

(* C34: the result cache never holds more than its bound; lruGet returns   *)
(* no entry stored more than LRU_TTL_MS ago and deletes such an entry; an  *)
(* entry returned by lruGet becomes the most recently used; and the entry  *)
(* removed by lruSet on overflow is the least recently used one.           *)
C34_ResultCacheBound ==
  [][/\ Len(LRU') <= LruCap
     /\ (q'.fn = "lruGet" /\ q'.hit)
        => /\ clock - q'.t <= LRU_TTL_MS
           /\ LRU' # <<>> /\ LRU'[Len(LRU')].key = q'.key
     /\ (q'.fn = "lruGet" /\ q'.aged)
        => (~q'.hit /\ q'.key \notin KeysOf(LRU'))
     /\ q'.fn = "lruSet"
        => \A k \in KeysOf(LRU) \ KeysOf(LRU') : k = Head(q.recency)]_vars

(* Sanity: the bound, the TTL and the touch hold on their own.             *)
LRU_BoundTtlTouch ==
  [][/\ Len(LRU') <= LruCap
     /\ (q'.fn = "lruGet" /\ q'.hit)
        => /\ clock - q'.t <= LRU_TTL_MS
           /\ LRU' # <<>> /\ LRU'[Len(LRU')].key = q'.key
     /\ (q'.fn = "lruGet" /\ q'.aged)
        => (~q'.hit /\ q'.key \notin KeysOf(LRU'))]_vars

(* Sanity: as long as no lruSet has found its key present, the Map holds   *)
(* the keys in the order of their last use.                                *)
LRU_OrderIsRecencyUntilReplaced ==
  ~q.replaced
  => /\ Len(LRU) = Len(q.recency)
     /\ \A i \in 1..Len(LRU) : LRU[i].key = q.recency[i]

(* Reachable: the key just stored by lruSet is the first key of the Map,   *)
(* the next to be deleted, while another key was used before it.           *)
LRU_JustStoredIsNextOut ==
  /\ q.fn = "lruSet" /\ Len(LRU) = LruCap
  /\ LRU[1].key = q.key
  /\ q.recency[Len(q.recency)] = q.key

---------------------------------------------------------------------------
(* Claims about what the result cache answers                              *)

(* The list a fresh scan of the archive gives for the call recorded in q   *)
FreshScan == zipScan(q.stopIds, arg.routeRef, arg.limit, q.now)

(* C35: whenever nextArrivalsFromZipStreaming answers from the result      *)
(* cache, the list it returns is the list a fresh scan of the archive      *)
(* would return for the same call, also when an earlier call on the same   *)
(* local date had another `now`.                                           *)
C35_ResultCacheTransparent ==
  (q.fn = "nextArrivalsFromZipStreaming" /\ q.impl = "part_008" /\ q.cached)
  => q.out = FreshScan

(* Sanity: a call that is not answered from the cache returns the scan.    *)
CACHE_MissReturnsScan ==
  (q.fn = "nextArrivalsFromZipStreaming" /\ q.impl = "part_008" /\ ~q.cached)
  => q.out = FreshScan

(* Sanity: the entry that answers was stored on the same local date for    *)
(* the same stop ids, so a cached list differs from the scan only by the   *)
(* time of day of the call.                                                *)
CACHE_HitHasSameDate ==
  (q.fn = "nextArrivalsFromZipStreaming" /\ q.impl = "part_008" /\ q.cached)
  => \E i \in 1..Len(LRU) :
       /\ LRU[i].key = arrKey(q.stopIds, arg.routeRef, arg.limit, q.now)
       /\ LRU[i].key.date = todayKeyLocal(q.now)
       /\ LRU[i].data = q.out

(* Reachable: a cached list holds a departure that is before the `now` of  *)
(* the call it answers.                                                    *)
CACHE_ServesPastDeparture ==
  /\ q.fn = "nextArrivalsFromZipStreaming" /\ q.impl = "part_008" /\ q.cached
  /\ \E i \in 1..Len(q.out) : ~InWindowAt(q.out[i].sec, q.now)

---------------------------------------------------------------------------
(* Claims about the snapshot file ensureSqliteLocal hands out              *)

(* C36: whenever ensureSqliteLocal returns the path, through the freshness *)
(* shortcut or after a download, the file there has exactly the remote     *)
(* size and holds the remote bytes in order, whatever earlier calls did.   *)
C36_ReturnedArtifactComplete ==
  (pc = "returned" /\ dl.op = "sqlite" /\ dl.ret = "ok")
  => file = RemoteBody(0)

(* Sanity: a download that knew the remote size and returned leaves a file *)
(* that is not shorter than the remote one.                                *)
ARTIFACT_NotShortWhenSizeKnown ==
  (/\ pc = "returned" /\ dl.op = "sqlite" /\ dl.ret = "ok"
   /\ dl.nReq > 0 /\ dl.remoteSize # NULL)
  => Len(file) >= dl.remoteSize

(* Sanity: a first download into an empty directory with no failed or      *)
(* short transfer gives the remote file.                                   *)
ARTIFACT_CleanDownloadIsComplete ==
  (/\ pc = "returned" /\ dl.op = "sqlite" /\ dl.ret = "ok"
   /\ dl.nReq = 1 /\ dl.nFail = 0 /\ dl.startN = 0 /\ dl.remoteSize # NULL)
  => file = RemoteBody(0)

(* Reachable: the freshness shortcut returns a file that is shorter than   *)
(* the remote one.                                                         *)
ARTIFACT_ShortcutReturnsPartial ==
  /\ pc = "returned" /\ dl.op = "sqlite" /\ dl.ret = "ok" /\ dl.net = 0
  /\ Len(file) < remote.size

(* Reachable: a download returns a file longer than the remote one.        *)
ARTIFACT_DownloadReturnsTooLong ==
  /\ pc = "returned" /\ dl.op = "sqlite" /\ dl.ret = "ok" /\ dl.nReq > 0
  /\ Len(file) > remote.size

---------------------------------------------------------------------------
(* A snapshot that expires: the local file is a whole snapshot, it ages,   *)
(* and the publisher may put a new version of another size at the URL.     *)

ExpirySizes == 3            \* remote sizes 1..ExpirySizes
MaxVersions == 2            \* versions the publisher puts at the URL

(* The publisher replaces the remote file between two calls *)
RemotePublishes ==
  /\ pc = "idle"
  /\ remote.ver < MaxVersions
  /\ \E s \in 1..ExpirySizes :
       remote' = [size |-> s, ver |-> remote.ver + 1, was |-> remote.size]
  /\ UNCHANGED <<file, fileAge, tmp, pc, dl, zipVars, schedVars, extVars>>

InitExpiry ==
  /\ \E s \in 1..ExpirySizes : remote = [size |-> s, ver |-> 1, was |-> 0]
  /\ file = RemoteBody(0)
  /\ fileAge = (MaxAgeHours - 2) * HourMs
  /\ tmp = <<>>
  /\ pc = "idle"
  /\ dl = IdleDl
  /\ zip = <<>> /\ zipAge = 0 /\ zipTmp = <<>> /\ zc = IdleZc
  /\ disk = IdleDisk
  /\ fetches = IdleFetches
  /\ req = IdleReq
  /\ opens = IdleOpens
  /\ res = IdleRes
  /\ pg = NoPg
  /\ prime = IdlePrime
  /\ net = "up"
  /\ LRU7 = <<>>
  /\ zipHasDates = TRUE
  /\ env = [SQLITE_URL |-> TRUE, GTFS_URL |-> TRUE]
  /\ rt = IdleRt
  /\ RT_CACHE = <<>>
  /\ feed = <<>>
  /\ routeShort = <<>>
  /\ stops = StopsTxt
  /\ stop_times = <<>> /\ calendar_dates = <<>> /\ hostOffset = TorontoOffset
  /\ arg = [stopId |-> "A", limit |-> 1, routeRef |-> NoRef]
  /\ sqliteReady = FALSE /\ LRU = <<>> /\ clock = 0 /\ q = IdleQ /\ nCalls = 0

NextExpiry ==
  \/ ensureSqliteLocal
  \/ httpHeadSize
  \/ downloadAttemptFails
  \/ downloadAttempt
  \/ Return
  \/ Tick
  \/ RemotePublishes

SpecExpiry == InitExpiry /\ [][NextExpiry]_vars

(* C37: when the local snapshot is a whole file but older than its TTL, a  *)
(* successful ensureSqliteLocal leaves at the final path the current       *)
(* remote content with a modification time within the TTL (so that the     *)
(* next call within the TTL needs no network access), whether the remote   *)
(* file has the size of the stale one, or is larger or smaller.            *)
C37_ExpiryLeadsToRefresh ==
  (/\ pc = "returned" /\ dl.op = "sqlite" /\ dl.ret = "ok"
   /\ dl.callWhole /\ dl.callAge >= TTL_SQLITE_MS)
  => /\ file = RemoteBody(0)
     /\ fileAge < TTL_SQLITE_MS

(* Sanity: when the server answers the request with 200 and the whole body *)
(* arrives in that one transfer, the refresh is right.                     *)
EXPIRY_FullBodyRefreshes ==
  (/\ pc = "returned" /\ dl.op = "sqlite" /\ dl.ret = "ok"
   /\ dl.callWhole /\ dl.callAge >= TTL_SQLITE_MS
   /\ dl.nReq = 1 /\ dl.nFail = 0 /\ dl.got200 /\ dl.remoteSize # NULL)
  => /\ file = RemoteBody(0)
     /\ fileAge < TTL_SQLITE_MS

(* Reachable: the stale file has the remote size and is returned as it is, *)
(* still stale, after a size probe only.                                   *)
EXPIRY_SameSizeStaysStale ==
  /\ pc = "returned" /\ dl.op = "sqlite" /\ dl.ret = "ok"
  /\ dl.callWhole /\ dl.callAge >= TTL_SQLITE_MS
  /\ dl.nReq = 0 /\ dl.net > 0
  /\ fileAge >= TTL_SQLITE_MS

(* Reachable: the new version is larger and its tail is appended to the    *)
(* old version's bytes.                                                    *)
EXPIRY_LargerRemoteMixesVersions ==
  /\ pc = "returned" /\ dl.op = "sqlite" /\ dl.ret = "ok"
  /\ dl.callWhole /\ dl.callAge >= TTL_SQLITE_MS
  /\ Len(file) = remote.size
  /\ \E i, j \in 1..Len(file) : file[i][1] # file[j][1]


---------------------------------------------------------------------------
(* Concurrent ensureZipLocal calls                                         *)
(*                                                                         *)
(* Two requests call ensureZipLocal of one module while no fresh archive   *)
(* is on disk.  Each call is stat, fetch, createWriteStream, one write per *)
(* byte at the descriptor's own offset, and (where the module uses one)    *)
(* renameSync of the temporary path.  Both calls use the same path names.  *)
(* A path leads to a file (1 or 2) or to none; a descriptor stays on its   *)
(* file whatever the paths do afterwards.                                  *)

Hole == <<"zip", 0>>                     \* a byte no call has written yet

(* the file a new path gets: one no path and no descriptor refers to       *)
FreeFile(d) ==
  CHOOSE f \in {1, 2} :
    /\ f \notin {d.final, d.tmp}
    /\ \A c \in ZipCallers : d.call[c].pc = "write" => d.call[c].fd # f

(* the bytes of a file after `byte` is written at offset off               *)
WriteAt(bytes, off, byte) ==
  [i \in 1..(IF off + 1 > Len(bytes) THEN off + 1 ELSE Len(bytes)) |->
     IF i = off + 1 THEN byte
     ELSE IF i <= Len(bytes) THEN bytes[i] ELSE Hole]

FinalBytes(d) == IF d.final = NoFile THEN <<>> ELSE d.bytes[d.final]

(* fs.statSync(file); fresh enough and size > 0: return; else fetch        *)
zipCallStarts(c) ==
  /\ disk.call[c].pc = "idle"
  /\ disk' = [disk EXCEPT !.call[c] =
       IF Len(FinalBytes(disk)) > 0
         THEN [@ EXCEPT !.pc = "returned", !.ret = "ok", !.net = FALSE,
                        !.left = FinalBytes(disk), !.late = FALSE]
         ELSE [@ EXCEPT !.pc = "fetch", !.ret = "none", !.net = TRUE,
                        !.left = <<>>, !.late = FALSE]]
  /\ UNCHANGED <<dlVars, zipVars, schedVars, stops, routeShort, feed, RT_CACHE,
                 rt, env, zipHasDates, LRU7, net, prime, pg, res, opens, req,
                 fetches>>

(* the response arrives; createWriteStream(path) with flags 'w' creates    *)
(* the file or truncates the one the path leads to                         *)
zipCallOpens(c) ==
  /\ disk.call[c].pc = "fetch"
  /\ LET viaTmp == ZipViaTmp(disk.impl)
         at     == IF viaTmp THEN disk.tmp ELSE disk.final
         f      == IF at = NoFile THEN FreeFile(disk) ELSE at
     IN  disk' = [disk EXCEPT
                    !.tmp   = IF viaTmp THEN f ELSE @,
                    !.final = IF viaTmp THEN @ ELSE f,
                    !.bytes[f] = <<>>,
                    !.call[c] = [@ EXCEPT !.pc = "write", !.fd = f, !.off = 0]]
  /\ UNCHANGED <<dlVars, zipVars, schedVars, stops, routeShort, feed, RT_CACHE,
                 rt, env, zipHasDates, LRU7, net, prime, pg, res, opens, req,
                 fetches>>

(* one chunk of the body goes to the descriptor's file at its offset       *)
zipCallWrites(c) ==
  /\ disk.call[c].pc = "write"
  /\ disk.call[c].off < ZipRemoteSize
  /\ LET k == disk.call[c]
     IN  disk' = [disk EXCEPT
                    !.bytes[k.fd] = WriteAt(@, k.off, ZipBody[k.off + 1]),
                    !.call[c] = [@ EXCEPT
                       !.off = k.off + 1,
                       !.late = @ \/ (ZipViaTmp(disk.impl) /\ k.fd = disk.final)]]
  /\ UNCHANGED <<dlVars, zipVars, schedVars, stops, routeShort, feed, RT_CACHE,
                 rt, env, zipHasDates, LRU7, net, prime, pg, res, opens, req,
                 fetches>>

(* the stream finishes; fs.renameSync(tmp, file) where the module has one, *)
(* which throws when the temporary path is gone                            *)
zipCallFinishes(c) ==
  /\ disk.call[c].pc = "write"
  /\ disk.call[c].off = ZipRemoteSize
  /\ IF ~ZipViaTmp(disk.impl)
       THEN disk' = [disk EXCEPT !.call[c] =
                       [@ EXCEPT !.pc = "returned", !.ret = "ok", !.fd = NoFile,
                                 !.left = FinalBytes(disk)]]
     ELSE IF disk.tmp = NoFile
       THEN disk' = [disk EXCEPT !.call[c] =
                       [@ EXCEPT !.pc = "returned", !.ret = "err", !.fd = NoFile]]
       ELSE disk' = [disk EXCEPT
                       !.final = disk.tmp,
                       !.tmp = NoFile,
                       !.call[c] =
                         [@ EXCEPT !.pc = "returned", !.ret = "ok", !.fd = NoFile,
                                   !.left = disk.bytes[disk.tmp]]]
  /\ UNCHANGED <<dlVars, zipVars, schedVars, stops, routeShort, feed, RT_CACHE,
                 rt, env, zipHasDates, LRU7, net, prime, pg, res, opens, req,
                 fetches>>

(* the caller has its answer; the request handler may call again           *)
zipCallReturns(c) ==
  /\ disk.call[c].pc = "returned"
  /\ disk' = [disk EXCEPT !.call[c].pc = "idle"]
  /\ UNCHANGED <<dlVars, zipVars, schedVars, stops, routeShort, feed, RT_CACHE,
                 rt, env, zipHasDates, LRU7, net, prime, pg, res, opens, req,
                 fetches>>

InitDisk ==
  /\ remote = [size |-> 2, ver |-> 0, was |-> 0]
  /\ file = <<>> /\ fileAge = 0 /\ tmp = <<>> /\ pc = "idle" /\ dl = IdleDl
  /\ zip = <<>> /\ zipAge = 0 /\ zipTmp = <<>> /\ zc = IdleZc
  /\ stop_times = <<>> /\ calendar_dates = <<>> /\ hostOffset = TorontoOffset
  /\ arg = [stopId |-> "A", limit |-> 1, routeRef |-> NoRef]
  /\ sqliteReady = FALSE /\ LRU = <<>> /\ clock = 0 /\ q = IdleQ /\ nCalls = 0
  /\ stops = StopsTxt /\ routeShort = <<>> /\ feed = <<>> /\ RT_CACHE = <<>>
  /\ rt = IdleRt /\ env = [SQLITE_URL |-> TRUE, GTFS_URL |-> TRUE]
  /\ zipHasDates = TRUE /\ LRU7 = <<>>
  /\ net = "up" /\ prime = IdlePrime /\ pg = NoPg /\ res = IdleRes
  /\ opens = IdleOpens /\ req = IdleReq /\ fetches = IdleFetches
  /\ \E impl \in ZipImpls : disk = [IdleDisk EXCEPT !.impl = impl]

NextDisk ==
  \E c \in ZipCallers :
    \/ zipCallStarts(c)
    \/ zipCallOpens(c)
    \/ zipCallWrites(c)
    \/ zipCallFinishes(c)
    \/ zipCallReturns(c)

SpecDisk == InitDisk /\ [][NextDisk]_vars

DiskCall(c) == disk.call[c]

(* C38: a call that started with no fresh archive on disk and returned     *)
(* successfully leaves the complete remote body at the final path, and no  *)
(* call writes into a file after it was renamed into place.                *)
C38_ConcurrentDownloadsKeepArtifactWhole ==
  \A c \in ZipCallers :
    /\ (DiskCall(c).pc = "returned" /\ DiskCall(c).ret = "ok" /\ DiskCall(c).net)
         => DiskCall(c).left = ZipBody
    /\ ~DiskCall(c).late

(* what does hold: a call that ran with no other call between its stat and *)
(* its return leaves the whole body                                        *)
DISK_AloneIsWhole ==
  [][\A c \in ZipCallers : \A o \in ZipCallers \ {c} :
       (zipCallFinishes(c) /\ DiskCall(c).ret' = "ok"
          /\ DiskCall(o).pc \in {"idle", "returned"} /\ ~DiskCall(o).net)
         => DiskCall(c).left' = ZipBody]_vars

(* reached: two calls of a module with a temporary path share that path;   *)
(* the second truncates it, the first renames it into place and returns    *)
DISK_RenamedWhileTruncated ==
  \E c \in ZipCallers :
    /\ ZipViaTmp(disk.impl)
    /\ DiskCall(c).pc = "returned" /\ DiskCall(c).ret = "ok" /\ DiskCall(c).net
    /\ DiskCall(c).left # ZipBody

(* reached: the other call goes on writing into the file now at the final  *)
(* path, and its own rename then fails                                     *)
DISK_WritesAfterRename ==
  \E c \in ZipCallers :
    DiskCall(c).late /\ DiskCall(c).pc = "returned" /\ DiskCall(c).ret = "err"

(* reached: two calls of a module that writes the final path directly; one *)
(* returns while the file holds less than the body                         *)
DISK_DirectWriteTruncated ==
  \E c \in ZipCallers :
    /\ ~ZipViaTmp(disk.impl)
    /\ DiskCall(c).pc = "returned" /\ DiskCall(c).ret = "ok" /\ DiskCall(c).net
    /\ DiskCall(c).left # ZipBody


---------------------------------------------------------------------------
(* Queries around local midnight                                           *)
(*                                                                         *)
(* The host runs in the Toronto zone and the snapshot is ready.  The feed  *)
(* has a Friday trip that leaves B at 25:30:00 (Saturday 01:30), a         *)
(* Saturday trip that leaves A at 00:30:00, and two daytime rows; queries  *)
(* come on Friday at 20:00 and 23:00 and on Saturday at 00:30.             *)

MidnightRows ==
  << [trip_id |-> "T4", stop_id |-> "B", departure_time |-> <<25, 30, 0>>],
     [trip_id |-> "T2", stop_id |-> "A", departure_time |-> <<0, 30, 0>>],
     [trip_id |-> "T3", stop_id |-> "B", departure_time |-> <<23, 30, 0>>],
     [trip_id |-> "T1", stop_id |-> "A", departure_time |-> <<8, 0, 0>>] >>

MidnightFiles ==
  { Pick(MidnightRows, keep, 1) :
      keep \in {k \in SUBSET (1..Len(MidnightRows)) : Cardinality(k) <= MaxRows} }

MidnightNows == {At(0, 20, 0, 0), At(0, 23, 0, 0), At(1, 0, 30, 0)}

InitMidnight ==
  /\ stop_times \in MidnightFiles
  /\ calendar_dates \in CalendarDateFiles
  /\ hostOffset = TorontoOffset
  /\ arg \in Args
  /\ sqliteReady = TRUE /\ LRU = <<>> /\ clock = 0 /\ q = IdleQ /\ nCalls = 0
  /\ remote = [size |-> 1, ver |-> 1, was |-> 0]
  /\ file = <<>> /\ fileAge = 0 /\ tmp = <<>> /\ pc = "idle" /\ dl = IdleDl
  /\ zip = <<>> /\ zipAge = 0 /\ zipTmp = <<>> /\ zc = IdleZc
  /\ stops = StopsTxt /\ routeShort = <<>> /\ feed = <<>> /\ RT_CACHE = <<>>
  /\ rt = IdleRt /\ env = [SQLITE_URL |-> TRUE, GTFS_URL |-> TRUE]
  /\ zipHasDates = TRUE /\ LRU7 = <<>>
  /\ net = "up" /\ prime = IdlePrime /\ pg = NoPg /\ res = IdleRes
  /\ opens = IdleOpens /\ req = IdleReq /\ fetches = IdleFetches
  /\ disk = IdleDisk

NextMidnight ==
  \/ nextArrivalsFromScheduleAt(MidnightNows)
  \/ nextArrivalsFromZipStreamingAt(MidnightNows)

SpecMidnight == InitMidnight /\ [][NextMidnight]_vars

(* The Toronto calendar day of an instant (0 = Friday 2024-01-05), the     *)
(* services of a calendar day, and the instant at which a row's departure  *)
(* happens when its trip runs on service day d                             *)
TorontoDay(now) == (now + TorontoOffset) \div DaySec
ServicesOn(d) == activeServiceIds(calendar_dates, d * DaySec - hostOffset)
DepartureInstant(d, sec) == d * DaySec - TorontoOffset + sec

(* The departures the query recorded in q is about: a row at a queried     *)
(* stop, a service day on which the row's trip runs, the instant inside    *)
(* [now, now + horizon], the route matching routeRef                       *)
DueDepartures(days) ==
  { e \in (1..Len(stop_times)) \X days :
      LET r == stop_times[e[1]]
          sec == hmsToSec(r.departure_time)
      IN  /\ r.stop_id \in Range(q.stopIds)
          /\ sec # NoSec
          /\ TripRow(r.trip_id).service_id \in ServicesOn(e[2])
          /\ q.now <= DepartureInstant(e[2], sec)
          /\ DepartureInstant(e[2], sec) <= q.now + horizonMin * 60
          /\ MatchesRouteRef(routeShortNamesForRouteIds(TripRow(r.trip_id).route_id),
                             arg.routeRef) }

(* the departure is in the list, or the list is full of departures that    *)
(* are not later                                                           *)
EligibleInResult(e) ==
  LET r == stop_times[e[1]]
      at == DepartureInstant(e[2], hmsToSec(r.departure_time))
  IN  \/ \E k \in 1..Len(q.out) :
           q.out[k].tid = r.trip_id /\ DateParse(q.out[k].when) = at
      \/ /\ Len(q.out) >= arg.limit
         /\ \A k \in 1..Len(q.out) : DateParse(q.out[k].when) <= at

FreshStaticQuery ==
  /\ q.fn \in NextArrivalFns
  /\ q.impl \in {"schedule-sqlite.js", "part_008"}
  /\ ~q.notReady /\ ~q.cached

(* C39: for a query at instant T with horizon H, every trip that runs on   *)
(* its own service day and whose departure instant at a queried stop lies  *)
(* in [T, T + H] is eligible for the static result: the previous service   *)
(* day's trips with times of 24:00:00 and more shortly after midnight, the *)
(* next service day's early trips shortly before midnight.                 *)
C39_CompleteAcrossMidnight ==
  FreshStaticQuery
  => \A e \in DueDepartures({TorontoDay(q.now) - 1, TorontoDay(q.now),
                             TorontoDay(q.now) + 1}) : EligibleInResult(e)

(* what does hold: the departures of the service day of the query's own    *)
(* calendar date are eligible, times of 24:00:00 and more included         *)
MIDNIGHT_OwnDayComplete ==
  FreshStaticQuery
  => \A e \in DueDepartures({TorontoDay(q.now)}) : EligibleInResult(e)

(* reached: Friday 20:00, the Friday trip of 25:30:00 is listed for        *)
(* Saturday 01:30                                                          *)
MIDNIGHT_LateTripOfTodayListed ==
  /\ FreshStaticQuery /\ q.now = At(0, 20, 0, 0)
  /\ \E k \in 1..Len(q.out) :
       q.out[k].tid = "T4" /\ DateParse(q.out[k].when) = At(1, 1, 30, 0)

(* reached: Saturday 00:30, the Friday trip that leaves at 25:30:00 runs   *)
(* and is due in an hour, and the list is empty                            *)
MIDNIGHT_PreviousDayTripMissing ==
  /\ FreshStaticQuery /\ q.now = At(1, 0, 30, 0) /\ q.out = <<>>
  /\ \E e \in DueDepartures({TorontoDay(q.now) - 1}) :
       stop_times[e[1]].trip_id = "T4"

(* reached: Friday 23:00, the Saturday trip of 00:30:00 is due in an hour  *)
(* and a half, and the list is empty                                       *)
MIDNIGHT_NextDayTripMissing ==
  /\ FreshStaticQuery /\ q.now = At(0, 23, 0, 0) /\ q.out = <<>>
  /\ \E e \in DueDepartures({TorontoDay(q.now) + 1}) :
       stop_times[e[1]].trip_id = "T2"

====
